---- MODULE Spec2Model ----
(***************************************************************************)
(* Partner Relationship Management: the CRM Partner document (validation,  *)
(* derived metrics, score, onboarding), the partner API (create_partner,   *)
(* update_partner, get_partner_details, assign_lead_to_partner) and the    *)
(* role-based permission resolvers.                                        *)
(*                                                                         *)
(* The record store, the session and the document life cycle are those of *)
(* the framework the code runs on: a document's insert runs validate,      *)
(* before_save, the database write, after_insert and on_update; its save   *)
(* runs validate, before_save, the write and on_update.  An API call is    *)
(* one request: an exception leaving it rolls every write of it back.      *)
(* Store comparisons are exact (binary) string comparisons.                *)
(***************************************************************************)
EXTENDS Integers, Sequences, FiniteSets, TLC

VARIABLES
    partners,   \* tabCRM Partner: name (1..n) -> document
    deals,      \* tabCRM Deal: name -> [partner, status, deal_value, closed_date]
    leads,      \* tabCRM Lead: name -> [partner, status, lead_owner]
    users,      \* tabUser: email -> [enabled]
    todos,      \* tabToDo: set of [reference_name, subject]
    activities, \* tabCRM Activity: sequence of [reference_name, assigned_to]
    failing,    \* the operation of the framework that raises now, "" if none
    today,      \* the current date (frappe.utils.today / datetime.now)
    resp,       \* outcome of the last call: [op, user, data, name, exc, msg]
    inflight    \* create requests that have validated and not yet inserted

vars ==
    <<partners, deals, leads, users, todos, activities, failing, today, resp,
      inflight>>

-----------------------------------------------------------------------------
(* Bounds of the model *)

MaxPartners == 2
MaxDeals == 2
MaxLeads == 2
MaxDate == 3
MaxActivities == 2

-----------------------------------------------------------------------------
(* Values *)

\* Dates are 1..MaxDate, two days to a calendar year; NoDate is an unset date.
NoDate == 0
Dates == 1..MaxDate
Year(d) == (d + 1) \div 2

Min(a, b) == IF a <= b THEN a ELSE b

\* Strings the code slices or splits are sequences of one-character strings.
Str_Reseller == <<"R", "e", "s", "e", "l", "l", "e", "r">>
Str_Distributor == <<"D", "i", "s", "t", "r", "i", "b", "u", "t", "o", "r">>

LowerCase == <<"a", "b", "c", "d", "e", "f", "g", "h", "i", "j", "k", "l", "m",
               "n", "o", "p", "q", "r", "s", "t", "u", "v", "w", "x", "y", "z">>
UpperCase == <<"A", "B", "C", "D", "E", "F", "G", "H", "I", "J", "K", "L", "M",
               "N", "O", "P", "Q", "R", "S", "T", "U", "V", "W", "X", "Y", "Z">>

\* str.upper() on one character
UpperChar(c) ==
    IF \E i \in 1..Len(LowerCase) : LowerCase[i] = c
    THEN UpperCase[CHOOSE i \in 1..Len(LowerCase) : LowerCase[i] = c]
    ELSE c

\* str.upper()
Upper(s) == [i \in 1..Len(s) |-> UpperChar(s[i])]

\* s[:n]
Prefix(s, n) == SubSeq(s, 1, Min(n, Len(s)))

\* str.split(): the maximal runs of non-whitespace characters
RECURSIVE SplitFrom(_, _, _, _)
SplitFrom(s, i, cur, acc) ==
    IF i > Len(s)
    THEN IF cur = <<>> THEN acc ELSE Append(acc, cur)
    ELSE IF s[i] = " "
         THEN SplitFrom(s, i + 1, <<>>, IF cur = <<>> THEN acc ELSE Append(acc, cur))
         ELSE SplitFrom(s, i + 1, Append(cur, s[i]), acc)

Split(s) == SplitFrom(s, 1, <<>>, <<>>)

\* "".join(parts)
RECURSIVE Join(_)
Join(parts) == IF parts = <<>> THEN <<>> ELSE Head(parts) \o Join(Tail(parts))

DigitChars == <<"0", "1", "2", "3", "4", "5", "6", "7", "8", "9">>

\* the decimal digits of n >= 0
RECURSIVE Digits(_)
Digits(n) ==
    IF n < 10 THEN <<DigitChars[n + 1]>>
    ELSE Append(Digits(n \div 10), DigitChars[(n % 10) + 1])

\* f"{n:03d}": zero-padded to at least three digits
RECURSIVE ZeroPad(_, _)
ZeroPad(s, width) == IF Len(s) >= width THEN s ELSE ZeroPad(<<"0">> \o s, width)

Format03d(n) == ZeroPad(Digits(n), 3)

-----------------------------------------------------------------------------
(* Exact arithmetic for the code's float values: a number is n/d, d > 0,   *)
(* in lowest terms.                                                        *)

Abs(x) == IF x < 0 THEN -x ELSE x

RECURSIVE Gcd(_, _)
Gcd(a, b) == IF b = 0 THEN a ELSE Gcd(b, a % b)

Q(n, d) ==
    LET g == Gcd(Abs(n), d)
    IN [n |-> n \div g, d |-> d \div g]

QInt(k) == [n |-> k, d |-> 1]
QAdd(a, b) == Q(a.n * b.d + b.n * a.d, a.d * b.d)
QMulInt(a, k) == Q(a.n * k, a.d)
QDivInt(a, k) == Q(a.n, a.d * k)
QLeq(a, b) == a.n * b.d <= b.n * a.d
QMin(a, b) == IF QLeq(a, b) THEN a ELSE b

\* math.floor
QFloor(a) == a.n \div a.d

\* int(): truncation toward zero
QTrunc(a) == IF a.n >= 0 THEN a.n \div a.d ELSE -((-a.n) \div a.d)

-----------------------------------------------------------------------------
(* The CRM Partner document *)

\* A new document: the fields the caller did not supply hold their defaults.
NewPartnerDoc ==
    [ name |-> 0,
      partner_name |-> <<>>, partner_type |-> <<>>, partner_tier |-> "",
      email |-> "", partner_code |-> <<>>, status |-> "Pending Approval",
      commission_rate |-> 0, discount_level |-> 0,
      agreement_start_date |-> NoDate, agreement_end_date |-> NoDate,
      training_completed |-> 0, certification_obtained |-> 0,
      portal_access_enabled |-> 0,
      onboarding_status |-> "Not Started", onboarding_completion_date |-> NoDate,
      total_deals_closed |-> 0, total_revenue_generated |-> 0,
      average_deal_size |-> QInt(0), last_deal_date |-> NoDate,
      ytd_revenue |-> 0, lead_conversion_rate |-> QInt(0), partner_score |-> 0,
      assigned_partner_manager |-> "", user |-> "" ]

\* for field, value in partner_data.items(): if hasattr(doc, field): setattr(...)
SetFields(doc, partner_data) ==
    [f \in DOMAIN doc |->
        IF f \in DOMAIN partner_data THEN partner_data[f] ELSE doc[f]]

\* partner_data.get(field)
DataGet(partner_data, field, default) ==
    IF field \in DOMAIN partner_data THEN partner_data[field] ELSE default

\* frappe.db.exists("CRM Partner", {field: value, "name": ["!=", name]})
ExistsOtherPartner(field, value, name) ==
    \E n \in DOMAIN partners : n # name /\ partners[n][field] = value

\* frappe.db.exists("CRM Partner", {"partner_code": code})
ExistsPartnerCode(code) ==
    \E n \in DOMAIN partners : partners[n].partner_code = code

\* Each validate_* yields the message it throws, "" when it passes.
validate_partner_code(doc) ==
    IF doc.partner_code # <<>>
       /\ ExistsOtherPartner("partner_code", doc.partner_code, doc.name)
    THEN "Partner Code already exists"
    ELSE ""

\* (equal dates let through)
validate_agreement_dates_equal_allowed(doc) ==
    IF doc.agreement_start_date # NoDate /\ doc.agreement_end_date # NoDate
       /\ doc.agreement_start_date > doc.agreement_end_date
    THEN "Agreement End Date must be after Agreement Start Date"
    ELSE ""

validate_agreement_dates(doc) ==
    IF doc.agreement_start_date # NoDate /\ doc.agreement_end_date # NoDate
       /\ doc.agreement_start_date >= doc.agreement_end_date
    THEN "Agreement End Date must be after Agreement Start Date"
    ELSE ""

\* (the upper boundary refused)
validate_commission_and_discount_below_100(doc) ==
    IF doc.commission_rate # 0
       /\ (doc.commission_rate < 0 \/ doc.commission_rate >= 100)
    THEN "Commission Rate must be between 0 and 100"
    ELSE IF doc.discount_level # 0
            /\ (doc.discount_level < 0 \/ doc.discount_level >= 100)
    THEN "Discount Level must be between 0 and 100"
    ELSE ""

validate_commission_and_discount(doc) ==
    IF doc.commission_rate # 0
       /\ (doc.commission_rate < 0 \/ doc.commission_rate > 100)
    THEN "Commission Rate must be between 0 and 100"
    ELSE IF doc.discount_level # 0
            /\ (doc.discount_level < 0 \/ doc.discount_level > 100)
    THEN "Discount Level must be between 0 and 100"
    ELSE ""

\* code_base of set_partner_code_if_empty
CodeBase(partner_name) ==
    LET tokens == Split(partner_name)
    IN Prefix(Join([i \in 1..Len(tokens) |-> Upper(tokens[i])]), 6)

\* type_code of set_partner_code_if_empty
TypeCode(partner_type) ==
    IF partner_type # <<>> THEN Upper(Prefix(partner_type, 3)) ELSE <<"G", "E", "N">>

\* f"{code_base}{type_code}{counter:03d}"
ProposedCode(code_base, type_code, counter) ==
    code_base \o type_code \o Format03d(counter)

\* (a probe that takes the first candidate without looking it up)
ProbeCounterUnchecked(code_base, type_code, counter) == counter

\* the while True loop: the first counter whose code no partner holds
RECURSIVE ProbeCounter(_, _, _)
ProbeCounter(code_base, type_code, counter) ==
    IF ~ExistsPartnerCode(ProposedCode(code_base, type_code, counter))
    THEN counter
    ELSE ProbeCounter(code_base, type_code, counter + 1)

set_partner_code_if_empty(doc) ==
    IF doc.partner_code = <<>>
    THEN LET code_base == CodeBase(doc.partner_name)
             type_code == TypeCode(doc.partner_type)
         IN [doc EXCEPT !.partner_code =
                 ProposedCode(code_base, type_code,
                              ProbeCounter(code_base, type_code, 1))]
    ELSE doc

\* (the uniqueness check left out)
validate_email_uniqueness_skipped(doc) == ""

\* (the lookup without "name": ["!=", self.name])
validate_email_uniqueness_including_self(doc) ==
    IF doc.email # "" /\ \E n \in DOMAIN partners : partners[n].email = doc.email
    THEN "Email is already registered with another partner"
    ELSE ""

validate_email_uniqueness(doc) ==
    IF doc.email # "" /\ ExistsOtherPartner("email", doc.email, doc.name)
    THEN "Email is already registered with another partner"
    ELSE ""

\* validate(): [msg, doc]; msg is the first message thrown, "" when none is
\* (the email is checked before everything else)
validate_email_first(doc) ==
    IF validate_email_uniqueness(doc) # ""
    THEN [msg |-> validate_email_uniqueness(doc), doc |-> doc]
    ELSE IF validate_partner_code(doc) # ""
    THEN [msg |-> validate_partner_code(doc), doc |-> doc]
    ELSE IF validate_agreement_dates(doc) # ""
    THEN [msg |-> validate_agreement_dates(doc), doc |-> doc]
    ELSE [msg |-> validate_commission_and_discount(doc),
          doc |-> set_partner_code_if_empty(doc)]

validate(doc) ==
    IF validate_partner_code(doc) # ""
    THEN [msg |-> validate_partner_code(doc), doc |-> doc]
    ELSE IF validate_agreement_dates(doc) # ""
    THEN [msg |-> validate_agreement_dates(doc), doc |-> doc]
    ELSE IF validate_commission_and_discount(doc) # ""
    THEN [msg |-> validate_commission_and_discount(doc), doc |-> doc]
    ELSE LET coded == set_partner_code_if_empty(doc)
         IN [msg |-> validate_email_uniqueness(coded), doc |-> coded]

-----------------------------------------------------------------------------
(* Metrics Engine *)

\* frappe.get_all("CRM Deal", filters={"partner": name, "status": "Won"})
\* (every deal of the partner, whatever its status)
WonDeals_any_status(name) == {d \in DOMAIN deals : deals[d].partner = name}

WonDeals(name) ==
    {d \in DOMAIN deals : deals[d].partner = name /\ deals[d].status = "Won"}

\* sum([flt(deal.deal_value) for deal in ds])
RECURSIVE SumDealValues(_)
SumDealValues(ds) ==
    IF ds = {} THEN 0
    ELSE LET d == CHOOSE x \in ds : TRUE
         IN deals[d].deal_value + SumDealValues(ds \ {d})

\* max(deals, key=lambda x: x.closed_date).closed_date
LatestClosedDate(ds) ==
    CHOOSE c \in {deals[d].closed_date : d \in ds} :
        \A d \in ds : deals[d].closed_date <= c

\* frappe.db.count("CRM Lead", {"partner": name})
PartnerLeads(name) == {l \in DOMAIN leads : leads[l].partner = name}

\* frappe.db.count("CRM Lead", {"partner": name, "status": "Converted"})
ConvertedLeads(name) ==
    {l \in PartnerLeads(name) : leads[l].status = "Converted"}

calculate_performance_metrics(doc) ==
    LET won == WonDeals(doc.name)
        total == SumDealValues(won)
        ytd_deals == {d \in won : Year(deals[d].closed_date) = Year(today)}
        total_leads == Cardinality(PartnerLeads(doc.name))
        converted_leads == Cardinality(ConvertedLeads(doc.name))
        rate == IF total_leads > 0
                THEN Q(converted_leads * 100, total_leads)
                ELSE QInt(0)
    IN IF won # {}
       THEN [doc EXCEPT !.total_deals_closed = Cardinality(won),
                        !.total_revenue_generated = total,
                        !.average_deal_size = Q(total, Cardinality(won)),
                        !.last_deal_date = LatestClosedDate(won),
                        !.ytd_revenue = SumDealValues(ytd_deals),
                        !.lead_conversion_rate = rate]
       ELSE [doc EXCEPT !.total_deals_closed = 0,
                        !.total_revenue_generated = 0,
                        !.average_deal_size = QInt(0),
                        !.ytd_revenue = 0,
                        !.lead_conversion_rate = rate]

\* the score before the final int() and min(100, ...)
ScoreSum(doc) ==
    LET revenue_score ==
            IF doc.total_revenue_generated # 0
            THEN QMin(QInt(40), QMulInt(Q(doc.total_revenue_generated, 1000000), 40))
            ELSE QInt(0)
        conversion_score ==
            IF doc.lead_conversion_rate # QInt(0)
            THEN QMin(QInt(30), QMulInt(QDivInt(doc.lead_conversion_rate, 100), 30))
            ELSE QInt(0)
        training_score ==
            (IF doc.training_completed # 0 THEN 10 ELSE 0)
            + (IF doc.certification_obtained # 0 THEN 10 ELSE 0)
        compliance_score ==
            (IF doc.status = "Active" THEN 5 ELSE 0)
            + (IF doc.agreement_end_date # NoDate /\ doc.agreement_end_date > today
               THEN 5 ELSE 0)
    IN QAdd(QAdd(revenue_score, conversion_score),
            QInt(training_score + compliance_score))

update_partner_score(doc) ==
    [doc EXCEPT !.partner_score = Min(100, QTrunc(ScoreSum(doc)))]

\* (a first flag moves Not Started to In Progress)
set_onboarding_status_in_progress(doc) ==
    IF doc.training_completed # 0 /\ doc.certification_obtained # 0
       /\ doc.portal_access_enabled # 0 /\ doc.onboarding_status # "Completed"
    THEN [doc EXCEPT !.onboarding_status = "Completed",
                     !.onboarding_completion_date = today]
    ELSE IF doc.onboarding_status = "Not Started"
            /\ (doc.training_completed # 0 \/ doc.certification_obtained # 0
                \/ doc.portal_access_enabled # 0)
    THEN [doc EXCEPT !.onboarding_status = "In Progress"]
    ELSE doc

\* (a cleared flag takes a Completed onboarding back to In Progress)
set_onboarding_status_reverting(doc) ==
    IF doc.training_completed # 0 /\ doc.certification_obtained # 0
       /\ doc.portal_access_enabled # 0 /\ doc.onboarding_status # "Completed"
    THEN [doc EXCEPT !.onboarding_status = "Completed",
                     !.onboarding_completion_date = today]
    ELSE IF doc.onboarding_status = "Completed"
            /\ (doc.training_completed = 0 \/ doc.certification_obtained = 0
                \/ doc.portal_access_enabled = 0)
    THEN [doc EXCEPT !.onboarding_status = "In Progress",
                     !.onboarding_completion_date = NoDate]
    ELSE doc

set_onboarding_status(doc) ==
    IF doc.training_completed # 0 /\ doc.certification_obtained # 0
       /\ doc.portal_access_enabled # 0 /\ doc.onboarding_status # "Completed"
    THEN [doc EXCEPT !.onboarding_status = "Completed",
                     !.onboarding_completion_date = today]
    ELSE doc

before_save(doc) ==
    set_onboarding_status(update_partner_score(calculate_performance_metrics(doc)))

-----------------------------------------------------------------------------
(* Access Policy Resolver.  An identity is [user, roles]: the session user *)
(* and frappe.get_roles(user).                                             *)

FullAccessRoles == {"CRM Manager", "Partner Manager", "Partner Admin"}

\* frappe.db.get_value("CRM Partner", {"email": user}, "name"): 0 when none
PartnerOfUser(user) ==
    IF \E n \in DOMAIN partners : partners[n].email = user
    THEN CHOOSE n \in DOMAIN partners : partners[n].email = user
    ELSE 0

\* The SQL condition a resolver returns: "" is [kind |-> "all"], "1=0" is
\* [kind |-> "none"], name/partner = '<p>' carries the partner's name.
\* (the CRM User branch returning no restriction)
get_partner_permission_query_conditions_crm_user_all(user, user_roles) ==
    IF "System Manager" \in user_roles \/ user = "Administrator"
    THEN [kind |-> "all"]
    ELSE IF user_roles \cap FullAccessRoles # {}
    THEN [kind |-> "all"]
    ELSE IF "Partner" \in user_roles
    THEN IF PartnerOfUser(user) # 0
         THEN [kind |-> "name", value |-> PartnerOfUser(user)]
         ELSE [kind |-> "none"]
    ELSE IF "CRM User" \in user_roles
    THEN [kind |-> "all"]
    ELSE [kind |-> "none"]

\* (the Partner role is looked at before the full-access roles)
get_partner_permission_query_conditions_partner_first(user, user_roles) ==
    IF "System Manager" \in user_roles \/ user = "Administrator"
    THEN [kind |-> "all"]
    ELSE IF "Partner" \in user_roles
    THEN IF PartnerOfUser(user) # 0
         THEN [kind |-> "name", value |-> PartnerOfUser(user)]
         ELSE [kind |-> "none"]
    ELSE IF user_roles \cap FullAccessRoles # {}
    THEN [kind |-> "all"]
    ELSE IF "CRM User" \in user_roles
    THEN [kind |-> "status_not", value |-> "Terminated"]
    ELSE [kind |-> "none"]

get_partner_permission_query_conditions(user, user_roles) ==
    IF "System Manager" \in user_roles \/ user = "Administrator"
    THEN [kind |-> "all"]
    ELSE IF user_roles \cap FullAccessRoles # {}
    THEN [kind |-> "all"]
    ELSE IF "Partner" \in user_roles
    THEN IF PartnerOfUser(user) # 0
         THEN [kind |-> "name", value |-> PartnerOfUser(user)]
         ELSE [kind |-> "none"]
    ELSE IF "CRM User" \in user_roles
    THEN [kind |-> "status_not", value |-> "Terminated"]
    ELSE [kind |-> "none"]

\* (the fall-through granting read)
has_partner_permission_default_read(doc, user, user_roles, permission_type) ==
    IF "System Manager" \in user_roles \/ user = "Administrator"
    THEN TRUE
    ELSE IF user_roles \cap FullAccessRoles # {}
    THEN TRUE
    ELSE IF "Partner" \in user_roles
    THEN doc.email = user
    ELSE IF "CRM User" \in user_roles /\ permission_type = "read"
    THEN doc.status # "Terminated"
    ELSE IF "CRM User" \in user_roles /\ permission_type = "write"
    THEN doc.status = "Active"
    ELSE permission_type = "read"

has_partner_permission(doc, user, user_roles, permission_type) ==
    IF "System Manager" \in user_roles \/ user = "Administrator"
    THEN TRUE
    ELSE IF user_roles \cap FullAccessRoles # {}
    THEN TRUE
    ELSE IF "Partner" \in user_roles
    THEN doc.email = user
    ELSE IF "CRM User" \in user_roles /\ permission_type = "read"
    THEN doc.status # "Terminated"
    ELSE IF "CRM User" \in user_roles /\ permission_type = "write"
    THEN doc.status = "Active"
    ELSE FALSE

get_crm_lead_permission_query_conditions(user, user_roles) ==
    IF "Partner" \in user_roles
    THEN IF PartnerOfUser(user) # 0
         THEN [kind |-> "partner", value |-> PartnerOfUser(user)]
         ELSE [kind |-> "none"]
    ELSE [kind |-> "all"]

get_crm_deal_permission_query_conditions(user, user_roles) ==
    IF "Partner" \in user_roles
    THEN IF PartnerOfUser(user) # 0
         THEN [kind |-> "partner", value |-> PartnerOfUser(user)]
         ELSE [kind |-> "none"]
    ELSE [kind |-> "all"]

\* The store's evaluation of a condition on one row
RowSatisfies(row, cond) ==
    CASE cond.kind = "all" -> TRUE
      [] cond.kind = "none" -> FALSE
      [] cond.kind = "name" -> row.name = cond.value
      [] cond.kind = "partner" -> row.partner = cond.value
      [] cond.kind = "status_not" -> row.status # cond.value

\* The role permissions setup_partner_doctype_permissions writes for CRM
\* Partner; System Manager keeps the full access the resolvers name for it.
RolePermissions(role) ==
    CASE role \in {"Partner Manager", "Partner Admin", "CRM Manager"} ->
             {"read", "write", "create", "delete"}
      [] role = "CRM User" -> {"read", "write"}
      [] role = "Partner" -> {"read"}
      [] role = "System Manager" -> {"read", "write", "create", "delete"}
      [] OTHER -> {}

\* doc.has_permission(ptype) / the permission check of doc.insert(): a role
\* permission and the document's has_permission hook must both grant.
has_permission(doc, user, user_roles, ptype) ==
    \/ user = "Administrator"
    \/ /\ \E role \in user_roles : ptype \in RolePermissions(role)
       /\ has_partner_permission(doc, user, user_roles, ptype)

-----------------------------------------------------------------------------
(* Side effects of insert and save *)

Put(f, k, v) == [x \in DOMAIN f \cup {k} |-> IF x = k THEN v ELSE f[x]]

\* create_partner_user: a portal user for the partner's email, if none exists
CreatesUser(doc, us) == doc.email # "" /\ doc.email \notin DOMAIN us

create_partner_user(doc, us) ==
    IF CreatesUser(doc, us) THEN Put(us, doc.email, [enabled |-> 1]) ELSE us

OnboardingSubjects ==
    {"Complete Partner Agreement", "Product Training", "Portal Setup",
     "Initial Business Review"}

\* create_onboarding_tasks
create_onboarding_tasks(doc, ts) ==
    ts \cup {[reference_name |-> doc.name, subject |-> sub] : sub \in OnboardingSubjects}

\* after_insert runs create_partner_user, send_welcome_notification and
\* create_onboarding_tasks in a row, with no handler around any of them:
\* the insert of the User, frappe.sendmail or the insert of a ToDo raising
\* leaves after_insert, and doc.insert(), with that exception
after_insert_raises(doc, us) ==
    \/ CreatesUser(doc, us) /\ failing = "User"
    \/ doc.email # "" /\ failing = "sendmail"
    \/ failing = "ToDo"

\* enable_partner_access / disable_partner_access: [exc, users];
\* frappe.get_doc("User", email) raises DoesNotExistError for an unknown user
SetUserEnabled(doc, us, flag) ==
    IF doc.email = "" THEN [exc |-> "", users |-> us]
    ELSE IF doc.email \notin DOMAIN us
    THEN [exc |-> "DoesNotExistError", users |-> us]
    ELSE [exc |-> "", users |-> [us EXCEPT ![doc.email].enabled = flag]]

\* (only Active and Suspended are handled)
handle_status_change_suspended_only(doc, us) ==
    IF doc.status = "Active" THEN SetUserEnabled(doc, us, 1)
    ELSE IF doc.status = "Suspended" THEN SetUserEnabled(doc, us, 0)
    ELSE [exc |-> "", users |-> us]

handle_status_change(doc, us) ==
    IF doc.status = "Active" THEN SetUserEnabled(doc, us, 1)
    ELSE IF doc.status \in {"Inactive", "Suspended", "Terminated"}
    THEN SetUserEnabled(doc, us, 0)
    ELSE [exc |-> "", users |-> us]

\* on_update: status_changed is has_value_changed("status")
on_update(doc, us, status_changed) ==
    IF status_changed THEN handle_status_change(doc, us)
    ELSE [exc |-> "", users |-> us]

-----------------------------------------------------------------------------
(* Partner API *)

RequiredFields == <<"partner_name", "partner_type", "partner_tier", "email">>

SequenceFields == {"partner_name", "partner_type", "partner_code"}

\* not partner_data.get(field)
Missing(partner_data, field) ==
    \/ field \notin DOMAIN partner_data
    \/ field \in SequenceFields /\ partner_data[field] = <<>>
    \/ field \notin SequenceFields /\ partner_data[field] = ""

\* what a call leaves behind: the caller, its partner_data, the document it
\* names, and the exception it ends with.  Every failing path of the API
\* ends in frappe.throw(message), which raises frappe.ValidationError.
Response(op, caller, partner_data, name, msg) ==
    [op |-> op, user |-> caller.user, data |-> partner_data, name |-> name,
     exc |-> IF msg = "" THEN "" ELSE "ValidationError", msg |-> msg]

\* no API call has ended since the last change of the environment
NoResponse ==
    [op |-> "none", user |-> "", data |-> <<>>, name |-> 0, exc |-> "", msg |-> ""]

create_partner(caller, partner_data) ==
    LET name == Len(partners) + 1
        missing == \E i \in 1..Len(RequiredFields) :
                       Missing(partner_data, RequiredFields[i])
        doc == SetFields([NewPartnerDoc EXCEPT !.name = name], partner_data)
        permitted == has_permission(doc, caller.user, caller.roles, "create")
        checked == validate(doc)
        saved == before_save(checked.doc)
        users1 == create_partner_user(saved, users)
        linked == IF CreatesUser(saved, users)
                  THEN [saved EXCEPT !.user = saved.email] ELSE saved
        updated == on_update(linked, users1, TRUE)
        msg == IF missing THEN "Missing required field"
               ELSE IF ~permitted THEN "No permission for CRM Partner"
               ELSE IF checked.msg # "" THEN checked.msg
               ELSE IF after_insert_raises(saved, users) THEN failing
               ELSE IF updated.exc # "" THEN updated.exc
               ELSE ""
    IN /\ Len(partners) < MaxPartners
       /\ IF msg = ""
          THEN /\ partners' = Append(partners, linked)
               /\ users' = updated.users
               /\ todos' = create_onboarding_tasks(linked, todos)
          ELSE UNCHANGED <<partners, users, todos>>
       /\ resp' = Response("create_partner", caller, partner_data,
                           IF msg = "" THEN name ELSE 0, msg)
       /\ UNCHANGED <<inflight, deals, leads, activities, failing, today>>

update_partner(caller, partner_name, partner_data) ==
    LET found == partner_name \in DOMAIN partners
        stored == partners[partner_name]
        permitted == has_permission(stored, caller.user, caller.roles, "write")
        doc == SetFields(stored, partner_data)
        checked == validate(doc)
        saved == before_save(checked.doc)
        updated == on_update(saved, users, saved.status # stored.status)
        msg == IF ~found THEN "Partner not found"
               ELSE IF ~permitted THEN "Not permitted to update this partner"
               ELSE IF checked.msg # "" THEN checked.msg
               ELSE IF updated.exc # "" THEN "Partner not found"
               ELSE ""
    IN /\ IF msg = ""
          THEN /\ partners' = [partners EXCEPT ![partner_name] = saved]
               /\ users' = updated.users
          ELSE UNCHANGED <<partners, users>>
       /\ resp' = Response("update_partner", caller, partner_data, partner_name, msg)
       /\ UNCHANGED <<inflight, deals, leads, todos, activities, failing, today>>

get_partner_details(caller, partner_name) ==
    LET found == partner_name \in DOMAIN partners
        permitted == has_permission(partners[partner_name], caller.user,
                                    caller.roles, "read")
        msg == IF ~found THEN "Partner not found"
               ELSE IF ~permitted THEN "Not permitted to view this partner"
               ELSE ""
    IN /\ resp' = Response("get_partner_details", caller, <<>>, partner_name, msg)
       /\ UNCHANGED <<inflight, partners, deals, leads, users, todos, activities, failing,
                      today>>

\* if partner.status != "Active": frappe.throw(...)
AssignablePartner_any_status(partner) == TRUE

AssignablePartner(partner) == partner.status = "Active"

\* frappe.db.rollback(): the table as committed, not as the call wrote it
db_rollback_skipped(committed, written) == written

db_rollback(committed, written) == committed

\* lead_writable is the outcome of lead.has_permission("write"), which the
\* role permissions of CRM Lead decide
assign_lead_to_partner(caller, lead_name, partner_name, lead_writable) ==
    LET lead_found == lead_name \in DOMAIN leads
        partner_found == partner_name \in DOMAIN partners
        partner == partners[partner_name]
        before_lead_save ==
            IF ~lead_found THEN "Lead not found"
            ELSE IF ~lead_writable THEN "Not permitted to assign this lead"
            ELSE IF ~partner_found THEN "Partner not found"
            ELSE IF ~AssignablePartner(partner)
            THEN "Cannot assign lead to inactive partner"
            ELSE ""
        written ==
            [leads EXCEPT ![lead_name].partner = partner_name,
                          ![lead_name].lead_owner =
                              IF partner.assigned_partner_manager # ""
                              THEN partner.assigned_partner_manager
                              ELSE caller.user]
        msg == IF before_lead_save # "" THEN before_lead_save
               ELSE IF failing = "CRM Activity" THEN failing
               ELSE ""
    IN /\ Len(activities) < MaxActivities
       /\ leads' = IF msg = "" THEN written
                   ELSE IF before_lead_save = "" THEN db_rollback(leads, written)
                   ELSE leads
       /\ activities' =
              IF msg = ""
              THEN Append(activities,
                          [reference_name |-> lead_name,
                           assigned_to |-> partner.assigned_partner_manager])
              ELSE activities
       /\ resp' = Response("assign_lead_to_partner", caller,
                           [lead_name |-> lead_name, partner_name |-> partner_name],
                           lead_name, msg)
       /\ UNCHANGED <<inflight, partners, deals, users, todos, failing, today>>

\* a filter entry is <<operator, value>>; filters maps field names to entries
FilterHolds(row, filters) ==
    \A field \in DOMAIN filters :
        IF filters[field][1] = "=" THEN row[field] = filters[field][2]
        ELSE row[field] # filters[field][2]

\* (the default exclusion is added to a supplied status filter as well)
default_status_filter_always(filters) ==
    Put(filters, "status", <<"!=", "Terminated">>)

\* if "status" not in filters: filters["status"] = ["!=", "Terminated"]
default_status_filter(filters) ==
    IF "status" \in DOMAIN filters THEN filters
    ELSE Put(filters, "status", <<"!=", "Terminated">>)

\* frappe.db.count("CRM Partner", filters): the rows the filters admit; no
\* permission condition is applied
db_count(filters) ==
    Cardinality({n \in DOMAIN partners : FilterHolds(partners[n], filters)})

\* the rows frappe.get_list selects for the caller: those the filters and
\* the caller's permission query conditions admit
ListedPartners(caller, filters) ==
    {n \in DOMAIN partners :
        /\ FilterHolds(partners[n], filters)
        /\ RowSatisfies(partners[n],
               get_partner_permission_query_conditions(caller.user, caller.roles))}

\* order_by="partner_score desc, modified desc": the orders of the rows by
\* descending score (rows of equal score come in either order)
ListOrders(rows) ==
    {order \in [1..Cardinality(rows) -> rows] :
        \A i, j \in 1..Cardinality(rows) :
            i < j => /\ order[i] # order[j]
                     /\ partners[order[i]].partner_score
                            >= partners[order[j]].partner_score}

\* limit_start=start, limit_page_length=limit
Page(order, start, limit) == SubSeq(order, start + 1, Min(start + limit, Len(order)))

\* frappe.get_list raises PermissionError for a user no role of which may
\* read the doctype
MayReadDoctype(caller) ==
    \/ caller.user = "Administrator"
    \/ \E role \in caller.roles : "read" \in RolePermissions(role)

get_partner_list(caller, filters, limit, start, search_term) ==
    LET conditions == IF search_term # <<>>
                      THEN << <<"CRM Partner", "partner_name", "like",
                                <<"%">> \o search_term \o <<"%">> >> >>
                      ELSE <<>>
        filters1 == default_status_filter(filters)
        total_count == db_count(filters1)
        request == [filters |-> filters, limit |-> limit, start |-> start,
                    search_term |-> search_term]
    IN /\ IF MayReadDoctype(caller)
          THEN \E order \in ListOrders(ListedPartners(caller, filters1)) :
                   resp' = [op |-> "get_partner_list", user |-> caller.user,
                            data |-> [request |-> request,
                                      partners |-> Page(order, start, limit),
                                      total_count |-> total_count,
                                      has_more |-> (start + limit) < total_count],
                            name |-> 0, exc |-> "", msg |-> ""]
          ELSE resp' = [op |-> "get_partner_list", user |-> caller.user,
                        data |-> [request |-> request],
                        name |-> 0, exc |-> "PermissionError",
                        msg |-> "No permission for CRM Partner"]
       /\ UNCHANGED <<inflight, partners, deals, leads, users, todos, activities, failing,
                      today>>

\* (the commission is cut to whole units)
CommissionOf_whole_units(partner_doc, deal_value) ==
    IF partner_doc.commission_rate # 0
    THEN QInt((deal_value * partner_doc.commission_rate) \div 100)
    ELSE QInt(0)

\* (flt(deal_value) * flt(partner_doc.commission_rate)) / 100 if the rate is
\* truthy, 0 otherwise; an unset rate is stored as 0
CommissionOf(partner_doc, deal_value) ==
    IF partner_doc.commission_rate # 0
    THEN QDivInt(QInt(deal_value * partner_doc.commission_rate), 100)
    ELSE QInt(0)

\* frappe.get_doc raises DoesNotExistError for an unknown partner; the
\* function checks no permission and has no handler
calculate_partner_commission(partner, deal_value) ==
    /\ IF partner \in DOMAIN partners
       THEN resp' = [op |-> "calculate_partner_commission", user |-> "",
                     data |-> [deal_value |-> deal_value,
                               commission |-> CommissionOf(partners[partner],
                                                           deal_value)],
                     name |-> partner, exc |-> "", msg |-> ""]
       ELSE resp' = [op |-> "calculate_partner_commission", user |-> "",
                     data |-> [deal_value |-> deal_value],
                     name |-> partner, exc |-> "DoesNotExistError",
                     msg |-> "CRM Partner not found"]
    /\ UNCHANGED <<inflight, partners, deals, leads, users, todos, activities, failing,
                   today>>

-----------------------------------------------------------------------------
(* create_partner as two steps of a request that runs beside others: the   *)
(* checks of validate read the store, and the row is written later.        *)

\* (the write is refused when the partner code is already stored)
db_insert_unique_code(doc) ==
    IF ExistsPartnerCode(doc.partner_code)
    THEN [msg |-> "DuplicateEntryError", doc |-> doc]
    ELSE [msg |-> "", doc |-> doc]

\* the write of partner.insert(): the row is stored as validate left it;
\* nothing compares it with the rows stored since
db_insert(doc) == [msg |-> "", doc |-> doc]

\* the request up to the end of before_save: required fields, permission,
\* validate (with the probe for a free code) and the metrics
begin_create_partner(caller, partner_data) ==
    LET missing == \E i \in 1..Len(RequiredFields) :
                       Missing(partner_data, RequiredFields[i])
        doc == SetFields(NewPartnerDoc, partner_data)
        permitted == has_permission(doc, caller.user, caller.roles, "create")
        checked == validate(doc)
        saved == before_save(checked.doc)
        msg == IF missing THEN "Missing required field"
               ELSE IF ~permitted THEN "No permission for CRM Partner"
               ELSE checked.msg
    IN /\ Len(partners) + Len(inflight) < MaxPartners
       /\ IF msg = ""
          THEN /\ inflight' = Append(inflight, [caller |-> caller,
                                                data |-> partner_data,
                                                doc |-> saved])
               /\ resp' = NoResponse
          ELSE /\ UNCHANGED inflight
               /\ resp' = Response("create_partner", caller, partner_data, 0, msg)
       /\ UNCHANGED <<partners, deals, leads, users, todos, activities, failing,
                      today>>

\* the rest of request i: the write, after_insert and on_update
finish_create_partner(i) ==
    /\ i \in DOMAIN inflight
    /\ LET name == Len(partners) + 1
           request == inflight[i]
           inserted == db_insert([request.doc EXCEPT !.name = name])
           saved == inserted.doc
           users1 == create_partner_user(saved, users)
           linked == IF CreatesUser(saved, users)
                     THEN [saved EXCEPT !.user = saved.email] ELSE saved
           updated == on_update(linked, users1, TRUE)
           msg == IF inserted.msg # "" THEN inserted.msg
                  ELSE IF after_insert_raises(saved, users) THEN failing
                  ELSE IF updated.exc # "" THEN updated.exc
                  ELSE ""
       IN /\ IF msg = ""
             THEN /\ partners' = Append(partners, linked)
                  /\ users' = updated.users
                  /\ todos' = create_onboarding_tasks(linked, todos)
             ELSE UNCHANGED <<partners, users, todos>>
          /\ resp' = Response("create_partner", request.caller, request.data,
                              IF msg = "" THEN name ELSE 0, msg)
          /\ inflight' = SubSeq(inflight, 1, i - 1)
                             \o SubSeq(inflight, i + 1, Len(inflight))
    /\ UNCHANGED <<deals, leads, activities, failing, today>>

-----------------------------------------------------------------------------
(* The environment: deals and leads of the CRM, and the passing of time *)

InsertDeal(partner, status, deal_value, closed_date) ==
    /\ Len(deals) < MaxDeals
    /\ partner \in DOMAIN partners
    /\ deals' = Append(deals, [name |-> Len(deals) + 1, partner |-> partner,
                               status |-> status, deal_value |-> deal_value,
                               closed_date |-> closed_date])
    /\ resp' = NoResponse
    /\ UNCHANGED <<inflight, partners, leads, users, todos, activities, failing, today>>

\* a lead of a partner, or of none (partner 0)
InsertLead(partner, status) ==
    /\ Len(leads) < MaxLeads
    /\ partner = 0 \/ partner \in DOMAIN partners
    /\ leads' = Append(leads, [name |-> Len(leads) + 1, partner |-> partner,
                               status |-> status, lead_owner |-> ""])
    /\ resp' = NoResponse
    /\ UNCHANGED <<inflight, partners, deals, users, todos, activities, failing, today>>

NextDay ==
    /\ today < MaxDate
    /\ today' = today + 1
    /\ resp' = NoResponse
    /\ UNCHANGED <<inflight, partners, deals, leads, users, todos, activities, failing>>

Failures == {"User", "sendmail", "ToDo", "CRM Activity"}

\* an operation of the framework starts to raise, or none does any more
SetFailing(operation) ==
    /\ operation \in Failures \cup {""}
    /\ failing # operation
    /\ failing' = operation
    /\ resp' = NoResponse
    /\ UNCHANGED <<inflight, partners, deals, leads, users, todos, activities, today>>

Init ==
    /\ partners = <<>>
    /\ deals = <<>>
    /\ leads = <<>>
    /\ users = <<>>
    /\ todos = {}
    /\ activities = <<>>
    /\ failing = ""
    /\ today = 1
    /\ resp = NoResponse
    /\ inflight = <<>>

-----------------------------------------------------------------------------
(* Partner codes: creates and updates by a partner manager, with and       *)
(* without explicit codes, over names that share a code base.              *)

Manager == [user |-> "manager@prm.test", roles |-> {"Partner Manager"}]

Emails == {"p1@prm.test", "p2@prm.test", "p3@prm.test"}

Name_ab == <<"a", "b">>
Name_a_b == <<"a", " ", "b">>
Code_ABRES001 == <<"A", "B", "R", "E", "S", "0", "0", "1">>
Code_ABRES002 == <<"A", "B", "R", "E", "S", "0", "0", "2">>

CodeNames == {Name_ab, Name_a_b}
CodeCodes == {Code_ABRES001, Code_ABRES002}

CodeCreateData ==
    {[partner_name |-> pn, partner_type |-> Str_Reseller, partner_tier |-> "Gold",
      email |-> e] : pn \in CodeNames, e \in Emails}
    \cup
    {[partner_name |-> pn, partner_type |-> Str_Reseller, partner_tier |-> "Gold",
      email |-> e, partner_code |-> pc] :
        pn \in {Name_ab}, e \in Emails, pc \in CodeCodes}

CodeUpdateData ==
    {[partner_code |-> pc] : pc \in CodeCodes \cup {<<>>}}

NextCode ==
    \/ \E partner_data \in CodeCreateData : create_partner(Manager, partner_data)
    \/ \E partner_name \in 1..MaxPartners, partner_data \in CodeUpdateData :
           update_partner(Manager, partner_name, partner_data)

SpecCode == Init /\ [][NextCode]_vars

\* C1: after any sequence of create_partner and update_partner calls, no two
\* persisted partners hold the same partner_code.
PartnerCodesUnique ==
    \A m, n \in DOMAIN partners :
        m # n => partners[m].partner_code # partners[n].partner_code

\* Two partners of the same code base and type, created without explicit
\* codes, are persisted side by side: the second one's probe moved on.
PartnerCodesUniqueWitness ==
    \E m, n \in DOMAIN partners :
        /\ m # n
        /\ CodeBase(partners[m].partner_name) = CodeBase(partners[n].partner_name)
        /\ partners[m].partner_type = partners[n].partner_type
        /\ partners[m].partner_code = Code_ABRES001
        /\ partners[n].partner_code = Code_ABRES002

-----------------------------------------------------------------------------
(* Access to partner rows: two partners whose status and email move under  *)
(* updates by a manager, a CRM user and a partner's own portal user; the   *)
(* resolvers are read for every identity over AllRoles and AccessUsers.    *)

AllRoles ==
    {"System Manager", "CRM Manager", "Partner Manager", "Partner Admin",
     "Partner", "CRM User", "Sales User"}

RecognizedRoles ==
    {"System Manager", "CRM Manager", "Partner Manager", "Partner Admin",
     "Partner", "CRM User"}

UnrestrictedRoles ==
    {"System Manager", "CRM Manager", "Partner Manager", "Partner Admin"}

PermissionTypes == {"read", "write", "create", "delete"}

Statuses == {"Pending Approval", "Active", "Inactive", "Suspended", "Terminated"}

AccessEmails == {"p1@prm.test", "p2@prm.test"}

AccessUsers == Emails \cup {"Administrator", "staff@prm.test"}

Identities == [user : AccessUsers, roles : SUBSET AllRoles]

CrmUser == [user |-> "staff@prm.test", roles |-> {"CRM User"}]
PortalUser == [user |-> "p1@prm.test", roles |-> {"Partner"}]

AccessCallers == {Manager, CrmUser, PortalUser}

AccessCreateData ==
    {[partner_name |-> Name_ab, partner_type |-> Str_Reseller,
      partner_tier |-> "Gold", email |-> e] : e \in AccessEmails}

AccessUpdateData ==
    {[status |-> st] : st \in Statuses} \cup {[email |-> e] : e \in AccessEmails}

NextAccess ==
    \/ \E caller \in AccessCallers, partner_data \in AccessCreateData :
           create_partner(caller, partner_data)
    \/ \E caller \in AccessCallers, partner_name \in 1..MaxPartners,
          partner_data \in AccessUpdateData :
           update_partner(caller, partner_name, partner_data)

SpecAccess == Init /\ [][NextAccess]_vars

\* the rows of tabCRM Partner the identity's query condition admits
VisiblePartners(identity) ==
    {n \in DOMAIN partners :
        RowSatisfies(partners[n],
            get_partner_permission_query_conditions(identity.user, identity.roles))}

PartnerOnly(identity) ==
    /\ "Partner" \in identity.roles
    /\ identity.roles \cap UnrestrictedRoles = {}
    /\ identity.user # "Administrator"

\* C2: an identity with the Partner role and no unrestricted role, of email
\* X, sees under the partner filter exactly the partner rows whose email is X
\* (none when no partner has it), and has_partner_permission grants it only
\* a partner whose email is X.
PartnerSeesOwnRowOnly ==
    \A identity \in Identities :
        PartnerOnly(identity) =>
            /\ VisiblePartners(identity) =
                   {n \in DOMAIN partners : partners[n].email = identity.user}
            /\ \A n \in DOMAIN partners, ptype \in PermissionTypes :
                   has_partner_permission(partners[n], identity.user,
                                          identity.roles, ptype)
                       => partners[n].email = identity.user

\* The portal user of one partner sees that partner and not the other one.
PartnerSeesOwnRowOnlyWitness ==
    \E m, n \in DOMAIN partners :
        /\ m # n
        /\ partners[m].email = PortalUser.user
        /\ partners[n].email # PortalUser.user
        /\ VisiblePartners(PortalUser) = {m}
        /\ has_partner_permission(partners[m], PortalUser.user, PortalUser.roles, "read")

\* C3: an identity with none of the six recognized roles, other than
\* Administrator, is shown no partner row and is granted no permission type
\* on any partner.
UnrecognizedRolesSeeNothing ==
    \A identity \in Identities :
        (identity.roles \cap RecognizedRoles = {} /\ identity.user # "Administrator")
            => /\ VisiblePartners(identity) = {}
               /\ \A n \in DOMAIN partners, ptype \in PermissionTypes :
                      ~has_partner_permission(partners[n], identity.user,
                                              identity.roles, ptype)

\* An active partner exists, whose own email an unrecognized identity uses.
UnrecognizedRolesSeeNothingWitness ==
    \E n \in DOMAIN partners :
        /\ partners[n].status = "Active"
        /\ partners[n].email = PortalUser.user
        /\ VisiblePartners([user |-> PortalUser.user, roles |-> {"Sales User"}]) = {}
        /\ VisiblePartners(Manager) # {}

\* C4: a Partner-role identity has read-only access to its own record:
\* has_partner_permission never grants "write" to an identity whose only role
\* is Partner, and update_partner by that identity is refused.
PartnerRoleNeverWrites ==
    /\ \A identity \in Identities :
           (identity.roles = {"Partner"} /\ identity.user # "Administrator")
               => \A n \in DOMAIN partners :
                      ~has_partner_permission(partners[n], identity.user,
                                              identity.roles, "write")
    /\ (resp.op = "update_partner" /\ resp.user = PortalUser.user) => resp.exc # ""

CrmUserOnly(identity) ==
    /\ "CRM User" \in identity.roles
    /\ identity.roles \cap (UnrestrictedRoles \cup {"Partner"}) = {}
    /\ identity.user # "Administrator"

-----------------------------------------------------------------------------
(* Access to lead and deal rows: leads and deals attributed to two partners *)

RowsUpdateData == {[email |-> e] : e \in AccessEmails \cup {""}}

NextRows ==
    \/ \E partner_data \in AccessCreateData : create_partner(Manager, partner_data)
    \/ \E partner_name \in 1..MaxPartners, partner_data \in RowsUpdateData :
           update_partner(Manager, partner_name, partner_data)
    \/ \E partner \in 1..MaxPartners : InsertLead(partner, "Open")
    \/ \E partner \in 1..MaxPartners : InsertDeal(partner, "Open", 10000, 1)

SpecRows == Init /\ [][NextRows]_vars

VisibleLeads(identity) ==
    {l \in DOMAIN leads :
        RowSatisfies(leads[l],
            get_crm_lead_permission_query_conditions(identity.user, identity.roles))}

VisibleDeals(identity) ==
    {d \in DOMAIN deals :
        RowSatisfies(deals[d],
            get_crm_deal_permission_query_conditions(identity.user, identity.roles))}

\* the leads and deals attributed to the partner whose email is the user's
OwnLeads(user) ==
    {l \in DOMAIN leads :
        \E n \in DOMAIN partners : partners[n].email = user /\ leads[l].partner = n}

OwnDeals(user) ==
    {d \in DOMAIN deals :
        \E n \in DOMAIN partners : partners[n].email = user /\ deals[d].partner = n}

\* a Partner-role identity sees a lead or deal row iff the row's partner is
\* the partner of its email, and no row when there is no such partner
PartnerSeesOwnLeadsAndDeals ==
    \A identity \in Identities :
        PartnerOnly(identity) =>
            /\ VisibleLeads(identity) = OwnLeads(identity.user)
            /\ VisibleDeals(identity) = OwnDeals(identity.user)

\* an identity without the Partner role gets no restriction
NonPartnerSeesAllLeadsAndDeals ==
    \A identity \in Identities :
        "Partner" \notin identity.roles =>
            /\ VisibleLeads(identity) = DOMAIN leads
            /\ VisibleDeals(identity) = DOMAIN deals

\* an identity with Partner and an unrestricted role is treated by the lead
\* and deal resolvers as the partner resolver treats it
UnrestrictedPartnerTreatedAlike ==
    \A identity \in Identities :
        ("Partner" \in identity.roles /\ identity.roles \cap UnrestrictedRoles # {})
            => /\ VisiblePartners(identity) = DOMAIN partners
               /\ VisibleLeads(identity) = DOMAIN leads
               /\ VisibleDeals(identity) = DOMAIN deals

\* C6: a Partner-role identity sees exactly the lead and deal rows of the
\* partner of its email (none without such a partner); an identity without
\* the Partner role is not restricted; an identity holding Partner together
\* with an unrestricted role is treated as the partner resolver treats it.
LeadDealRowsScopedLikePartnerRows ==
    /\ PartnerSeesOwnLeadsAndDeals
    /\ NonPartnerSeesAllLeadsAndDeals
    /\ UnrestrictedPartnerTreatedAlike

-----------------------------------------------------------------------------
(* The partner score: one partner, saved while Won deals (above the revenue *)
(* cap, fractional, negative), leads, flags, status and the agreement end *)
(* date change.  Float rounding is not modelled: the sums are exact.      *)

ScoreDealValues == {612500, -37500}

ScoreCreateData ==
    {[partner_name |-> Name_ab, partner_type |-> Str_Reseller,
      partner_tier |-> "Gold", email |-> "p1@prm.test"],
     [partner_name |-> Name_ab, partner_type |-> Str_Reseller,
      partner_tier |-> "Gold", email |-> "p1@prm.test",
      total_revenue_generated |-> 500000, lead_conversion_rate |-> QInt(75),
      training_completed |-> 1, certification_obtained |-> 1,
      status |-> "Active", agreement_end_date |-> 2]}

ScoreUpdateData ==
    {[status |-> "Active", training_completed |-> 1, agreement_end_date |-> 1],
     [partner_tier |-> "Gold"]}

NextScore ==
    \/ \E partner_data \in ScoreCreateData : create_partner(Manager, partner_data)
    \/ \E partner_name \in 1..MaxPartners, partner_data \in ScoreUpdateData :
           update_partner(Manager, partner_name, partner_data)
    \/ \E partner \in 1..MaxPartners, deal_value \in ScoreDealValues :
           InsertDeal(partner, "Won", deal_value, 1)
    \/ \E partner \in 1..MaxPartners, status \in {"Converted", "Open"} :
           InsertLead(partner, status)

SpecScore == Init /\ [][NextScore]_vars

\* the call that just ended saved a partner
Saved == resp.op \in {"create_partner", "update_partner"} /\ resp.exc = ""

\* C7: the partner score stored by any save is in [0,100], for every
\* combination of revenue, conversion rate, flags, status and end date.
PartnerScoreInRange ==
    Saved => (0 <= partners[resp.name].partner_score
              /\ partners[resp.name].partner_score <= 100)

\* the sum of the four score components of partner n, from its Won deals,
\* its leads and its fields as they are now
ComponentSum(n) ==
    LET totalRevenue == SumDealValues(WonDeals(n))
        totalLeads == Cardinality(PartnerLeads(n))
        conversionRate ==
            IF totalLeads > 0
            THEN Q(Cardinality(ConvertedLeads(n)) * 100, totalLeads)
            ELSE QInt(0)
        flags ==
            (IF partners[n].training_completed = 1 THEN 10 ELSE 0)
            + (IF partners[n].certification_obtained = 1 THEN 10 ELSE 0)
            + (IF partners[n].status = "Active" THEN 5 ELSE 0)
            + (IF partners[n].agreement_end_date # NoDate
                  /\ partners[n].agreement_end_date > today THEN 5 ELSE 0)
    IN QAdd(QAdd(QMin(QInt(40), QMulInt(Q(totalRevenue, 1000000), 40)),
                 QMin(QInt(30), QDivInt(QMulInt(conversionRate, 30), 100))),
            QInt(flags))

\* C8 as stated: after every save the stored partner_score is the floor of
\* the sum of the four components, computed from the metrics recomputed in
\* that save and the partner's fields at that save.
PartnerScoreIsFloorOfSum ==
    Saved => partners[resp.name].partner_score = QFloor(ComponentSum(resp.name))

\* C8: after every save the stored partner_score is the sum of the four
\* components truncated toward zero (the floor whenever the sum is not
\* negative), computed from the metrics recomputed in that save and the
\* partner's fields at that save.
PartnerScoreIsTruncatedSum ==
    Saved => partners[resp.name].partner_score = QTrunc(ComponentSum(resp.name))

\* A save of a partner with revenue above the cap, half of its leads
\* converted, and training and certification done.
PartnerScoreIsTruncatedSumWitness ==
    /\ Saved
    /\ SumDealValues(WonDeals(resp.name)) > 1000000
    /\ Cardinality(PartnerLeads(resp.name)) = 2
    /\ Cardinality(ConvertedLeads(resp.name)) = 1
    /\ partners[resp.name].training_completed = 1
    /\ partners[resp.name].certification_obtained = 1
    /\ partners[resp.name].partner_score = 85

-----------------------------------------------------------------------------
(* The derived metrics: the first partner is created with caller-given   *)
(* values for the derived fields and saved again, with and without them, *)
(* while its deals (Won in the current and in another calendar year,     *)
(* Lost) and leads arrive; a second partner without deals is created.    *)

MetricsDealRows ==
    {[partner |-> 1, status |-> "Won", deal_value |-> 10000, closed_date |-> 1],
     [partner |-> 1, status |-> "Won", deal_value |-> 20000, closed_date |-> 3],
     [partner |-> 1, status |-> "Lost", deal_value |-> 30000, closed_date |-> 3]}

MetricsLeadRows ==
    {[partner |-> 1, status |-> "Converted"],
     [partner |-> 1, status |-> "Open"]}

\* values for the derived fields that no computation here yields
SuppliedMetrics ==
    [total_deals_closed |-> 7, total_revenue_generated |-> 500000,
     average_deal_size |-> QInt(9), last_deal_date |-> 2, ytd_revenue |-> 5,
     lead_conversion_rate |-> QInt(75), partner_score |-> 100]

MetricsCreateData ==
    LET base(e) == [partner_name |-> Name_ab, partner_type |-> Str_Reseller,
                    partner_tier |-> "Gold", email |-> e]
    IN {base("p1@prm.test") @@ SuppliedMetrics, base("p2@prm.test")}

MetricsUpdateData == {[partner_tier |-> "Gold"], SuppliedMetrics}

NextMetrics ==
    \/ \E partner_data \in MetricsCreateData : create_partner(Manager, partner_data)
    \/ \E partner_data \in MetricsUpdateData :
           update_partner(Manager, 1, partner_data)
    \/ \E r \in MetricsDealRows :
           InsertDeal(r.partner, r.status, r.deal_value, r.closed_date)
    \/ \E r \in MetricsLeadRows : InsertLead(r.partner, r.status)

SpecMetrics == Init /\ [][NextMetrics]_vars

\* the Deal records with partner n and status Won
WonDealRecords(n) ==
    {d \in DOMAIN deals : deals[d].partner = n /\ deals[d].status = "Won"}

\* the aggregates of the Deal and Lead records of partner n, as of now
Aggregates(n) ==
    LET won == WonDealRecords(n)
        thisYear == {d \in won : Year(deals[d].closed_date) = Year(today)}
        allLeads == {l \in DOMAIN leads : leads[l].partner = n}
        converted == {l \in allLeads : leads[l].status = "Converted"}
    IN [total_deals_closed |-> Cardinality(won),
        total_revenue_generated |-> SumDealValues(won),
        average_deal_size |->
            IF won = {} THEN QInt(0)
            ELSE Q(SumDealValues(won), Cardinality(won)),
        ytd_revenue |-> SumDealValues(thisYear),
        lead_conversion_rate |->
            IF allLeads = {} THEN QInt(0)
            ELSE Q(Cardinality(converted) * 100, Cardinality(allLeads))]

\* C9: after every save of a partner, total_deals_closed, total_revenue_generated,
\* average_deal_size, ytd_revenue and lead_conversion_rate are the aggregates
\* of the partner's Won deals and of its leads (0 for the four revenue fields
\* with no Won deal, 0 for the rate with no lead).
MetricsAreAggregates ==
    Saved =>
        \A f \in DOMAIN Aggregates(resp.name) :
            partners[resp.name][f] = Aggregates(resp.name)[f]

\* A save of a partner with two Won deals, one of them closed in another
\* year, and one of its two leads converted.
MetricsAreAggregatesWitness ==
    /\ Saved
    /\ Cardinality(WonDealRecords(resp.name)) = 2
    /\ partners[resp.name].total_revenue_generated = 30000
    /\ partners[resp.name].average_deal_size = QInt(15000)
    /\ partners[resp.name].ytd_revenue = 10000
    /\ partners[resp.name].lead_conversion_rate = QInt(50)

DerivedFields ==
    {"total_deals_closed", "total_revenue_generated", "average_deal_size",
     "last_deal_date", "ytd_revenue", "lead_conversion_rate", "partner_score"}

SuppliedSave == Saved /\ DOMAIN resp.data \cap DerivedFields # {}

\* after a save that supplied derived fields, the aggregates and the score
\* are the computed ones
SuppliedAggregatesOverwritten ==
    SuppliedSave =>
        /\ \A f \in DOMAIN Aggregates(resp.name) :
               partners[resp.name][f] = Aggregates(resp.name)[f]
        /\ partners[resp.name].partner_score = QTrunc(ComponentSum(resp.name))

\* after a save that supplied last_deal_date, the stored last_deal_date is
\* the maximum closed date among the partner's Won deals (none without one)
SuppliedLastDealDateOverwritten ==
    SuppliedSave =>
        partners[resp.name].last_deal_date =
            IF WonDealRecords(resp.name) = {} THEN NoDate
            ELSE LatestClosedDate(WonDealRecords(resp.name))

\* C10: after any create_partner or update_partner whose input supplies a
\* derived field, every derived field holds the value computed from the
\* partner's Deal and Lead records, never the caller-supplied one.
DerivedMetricsNotSettable ==
    SuppliedAggregatesOverwritten /\ SuppliedLastDealDateOverwritten

-----------------------------------------------------------------------------
(* Emails: two partners created and updated by a partner manager over two *)
(* emails, the empty email, and re-saves that leave the email alone.       *)

EmailCreateData ==
    {[partner_name |-> Name_ab, partner_type |-> Str_Reseller,
      partner_tier |-> "Gold", email |-> e] : e \in {"p1@prm.test", "p2@prm.test"}}

EmailUpdateData ==
    {[email |-> e] : e \in {"p1@prm.test", "p2@prm.test", ""}}
    \cup {[partner_tier |-> "Gold"]}

NextEmail ==
    \/ \E partner_data \in EmailCreateData : create_partner(Manager, partner_data)
    \/ \E partner_name \in 1..MaxPartners, partner_data \in EmailUpdateData :
           update_partner(Manager, partner_name, partner_data)

SpecEmail == Init /\ [][NextEmail]_vars

\* the call that ends in resp
IsSave(r) == r.op \in {"create_partner", "update_partner"}

\* the document a create_partner or update_partner that ends in r hands to
\* insert() or save(), given the partners stored before the call
SubmittedDoc(r) ==
    IF r.op = "create_partner"
    THEN SetFields([NewPartnerDoc EXCEPT !.name = Len(partners) + 1], r.data)
    ELSE SetFields(partners[r.name], r.data)

\* r names a document to save: a create, or an update of a stored partner
Submits(r) ==
    \/ r.op = "create_partner"
    \/ r.op = "update_partner" /\ r.name \in DOMAIN partners

\* the call that ends in r asks to save an email a different partner holds
EmailHeldByOther(r) ==
    /\ Submits(r)
    /\ SubmittedDoc(r).email # ""
    /\ \E n \in DOMAIN partners :
           n # SubmittedDoc(r).name /\ partners[n].email = SubmittedDoc(r).email

\* the call that ends in r re-saves a stored partner without touching its email
ResavesOwnEmail(r) ==
    /\ r.op = "update_partner"
    /\ r.name \in DOMAIN partners
    /\ SubmittedDoc(r).email = partners[r.name].email

NoTwoPartnersShareEmail ==
    \A m, n \in DOMAIN partners :
        m # n /\ partners[m].email # "" => partners[m].email # partners[n].email

\* C11: a create or update with an email a different partner holds fails with
\* a validation error and persists nothing; a re-save of a partner with its
\* own unchanged email succeeds; no two persisted partners ever share a
\* non-empty email.
EmailUniqueAcrossPartners ==
    /\ []NoTwoPartnersShareEmail
    /\ [][/\ EmailHeldByOther(resp') =>
                /\ resp'.exc = "ValidationError"
                /\ UNCHANGED <<partners, users, todos>>
          /\ ResavesOwnEmail(resp') /\ DOMAIN resp'.data = {"partner_tier"} =>
                resp'.exc = ""]_vars

\* An update_partner that asks for the email of the other partner has just
\* been refused.
EmailUniqueAcrossPartnersWitness ==
    /\ resp.op = "update_partner"
    /\ resp.exc = "ValidationError"
    /\ resp.msg = "Email is already registered with another partner"
    /\ \E n \in DOMAIN partners :
           n # resp.name /\ partners[n].email = resp.data.email

-----------------------------------------------------------------------------
(* Agreement dates: one partner created and updated with every pair of    *)
(* start and end date, set or not, and with one date at a time.           *)

DatesCreateData ==
    {[partner_name |-> Name_ab, partner_type |-> Str_Reseller,
      partner_tier |-> "Gold", email |-> "p1@prm.test",
      agreement_start_date |-> a, agreement_end_date |-> b] :
        a \in Dates \cup {NoDate}, b \in Dates \cup {NoDate}}

DatesUpdateData ==
    {[agreement_start_date |-> a] : a \in Dates \cup {NoDate}}
    \cup {[agreement_end_date |-> b] : b \in Dates \cup {NoDate}}

NextDates ==
    \/ \E partner_data \in DatesCreateData : create_partner(Manager, partner_data)
    \/ \E partner_name \in 1..MaxPartners, partner_data \in DatesUpdateData :
           update_partner(Manager, partner_name, partner_data)

SpecDates == Init /\ [][NextDates]_vars

\* the call that ends in r asks to save an end date that is not after the
\* start date, both set
EndNotAfterStart(r) ==
    /\ Submits(r)
    /\ SubmittedDoc(r).agreement_start_date # NoDate
    /\ SubmittedDoc(r).agreement_end_date # NoDate
    /\ SubmittedDoc(r).agreement_end_date <= SubmittedDoc(r).agreement_start_date

EndAfterStartWhereBothSet ==
    \A n \in DOMAIN partners :
        partners[n].agreement_start_date # NoDate
        /\ partners[n].agreement_end_date # NoDate
        => partners[n].agreement_end_date > partners[n].agreement_start_date

\* C12: a save with both agreement dates set and the end date before or equal
\* to the start date fails with a validation error; every persisted partner
\* with both dates set has its end date strictly after its start date.
AgreementEndAfterStart ==
    /\ []EndAfterStartWhereBothSet
    /\ [][EndNotAfterStart(resp') =>
              resp'.exc = "ValidationError" /\ UNCHANGED partners]_vars

\* An update_partner that moves the end date onto the stored start date has
\* just been refused.
AgreementEndAfterStartWitness ==
    /\ resp.op = "update_partner"
    /\ resp.exc = "ValidationError"
    /\ resp.msg = "Agreement End Date must be after Agreement Start Date"
    /\ DOMAIN resp.data = {"agreement_end_date"}
    /\ resp.name \in DOMAIN partners
    /\ resp.data.agreement_end_date = partners[resp.name].agreement_start_date

-----------------------------------------------------------------------------
(* Commission rate and discount level: one partner created and updated    *)
(* with values below, at, between and above the boundaries 0 and 100.      *)

RateValues == {-1, 0, 50, 100, 101}

RatesCreateData ==
    {[partner_name |-> Name_ab, partner_type |-> Str_Reseller,
      partner_tier |-> "Gold", email |-> "p1@prm.test",
      commission_rate |-> c, discount_level |-> d] :
        c \in RateValues, d \in RateValues}

RatesUpdateData ==
    {[commission_rate |-> c] : c \in RateValues}
    \cup {[discount_level |-> d] : d \in RateValues}

NextRates ==
    \/ \E partner_data \in RatesCreateData : create_partner(Manager, partner_data)
    \/ \E partner_name \in 1..MaxPartners, partner_data \in RatesUpdateData :
           update_partner(Manager, partner_name, partner_data)

SpecRates == Init /\ [][NextRates]_vars

RateMessages ==
    {"Commission Rate must be between 0 and 100",
     "Discount Level must be between 0 and 100"}

InPercentRange(v) == 0 <= v /\ v <= 100

\* the call that ends in r asks to save a rate or level outside [0,100]
RateOutOfRange(r) ==
    /\ Submits(r)
    /\ \/ ~InPercentRange(SubmittedDoc(r).commission_rate)
       \/ ~InPercentRange(SubmittedDoc(r).discount_level)

RatesInRange ==
    \A n \in DOMAIN partners :
        /\ InPercentRange(partners[n].commission_rate)
        /\ InPercentRange(partners[n].discount_level)

\* C13: every persisted partner has commission_rate and discount_level within
\* [0,100]; a save with either below 0 or above 100 fails with a validation
\* error; values within the range, the boundaries 0 and 100 included, are
\* not refused.
CommissionAndDiscountInRange ==
    /\ []RatesInRange
    /\ [][/\ RateOutOfRange(resp') =>
                resp'.exc = "ValidationError" /\ UNCHANGED partners
          /\ Submits(resp') /\ ~RateOutOfRange(resp') =>
                resp'.msg \notin RateMessages]_vars

\* A partner has just been saved with the commission rate 100 and the
\* discount level 0 its creation asked for.
CommissionAndDiscountInRangeWitness ==
    /\ Saved
    /\ resp.op = "create_partner"
    /\ resp.data.commission_rate = 100
    /\ resp.data.discount_level = 0
    /\ partners[resp.name].commission_rate = 100
    /\ partners[resp.name].discount_level = 0

-----------------------------------------------------------------------------
(* Lead assignment: one partner of any status, with or without a partner  *)
(* manager; leads of no partner or of that partner; assignments by a      *)
(* caller who may or may not write the lead, while the insert of the      *)
(* activity record works or raises.                                        *)

PartnerManagerUser == "pm@prm.test"

AssignCreateData ==
    LET base == [partner_name |-> Name_ab, partner_type |-> Str_Reseller,
                 partner_tier |-> "Gold", email |-> "p1@prm.test"]
    IN {base @@ [status |-> st] : st \in Statuses}
       \cup {base @@ [status |-> "Active",
                      assigned_partner_manager |-> PartnerManagerUser]}

NextAssign ==
    \/ \E partner_data \in AssignCreateData : create_partner(Manager, partner_data)
    \/ \E partner \in 0..MaxPartners : InsertLead(partner, "Open")
    \/ \E lead_name \in 1..MaxLeads, partner_name \in 1..MaxPartners,
          lead_writable \in BOOLEAN :
           assign_lead_to_partner(Manager, lead_name, partner_name, lead_writable)
    \/ \E operation \in {"", "CRM Activity"} : SetFailing(operation)

SpecAssign == Init /\ [][NextAssign]_vars

IsAssign(r) == r.op = "assign_lead_to_partner"

\* the call that ends in r names a stored partner whose status is not Active
AssignsToInactive(r) ==
    /\ IsAssign(r)
    /\ r.data.partner_name \in DOMAIN partners
    /\ partners[r.data.partner_name].status # "Active"

\* C14: assign_lead_to_partner with a partner whose status is not Active fails
\* with a ValidationError, leaves the lead's partner and owner unchanged and
\* creates no activity record.
AssignToInactivePartnerFails ==
    [][AssignsToInactive(resp') =>
           /\ resp'.exc = "ValidationError"
           /\ UNCHANGED <<leads, activities>>]_vars

\* An assignment of a stored, writable lead to a partner that is not Active
\* has just been refused.
AssignToInactivePartnerFailsWitness ==
    /\ IsAssign(resp)
    /\ resp.exc = "ValidationError"
    /\ resp.msg = "Cannot assign lead to inactive partner"
    /\ partners[resp.data.partner_name].status = "Inactive"
    /\ resp.name \in DOMAIN leads

\* the owner an assignment to partner p by the caller of r gives the lead
AssignedOwner(r, p) ==
    IF partners[p].assigned_partner_manager # ""
    THEN partners[p].assigned_partner_manager
    ELSE r.user

\* C15: assign_lead_to_partner is all-or-nothing: a call that fails, also
\* after the lead was saved, leaves the leads and the activity records as
\* they were; a call that succeeds persists the lead with the given partner
\* and the partner's manager, or else the caller, as owner, and exactly one
\* new activity record.
AssignIsAllOrNothing ==
    [][IsAssign(resp') =>
           IF resp'.exc = ""
           THEN /\ leads' =
                      [leads EXCEPT
                          ![resp'.name].partner = resp'.data.partner_name,
                          ![resp'.name].lead_owner =
                              AssignedOwner(resp', resp'.data.partner_name)]
                /\ Len(activities') = Len(activities) + 1
                /\ SubSeq(activities', 1, Len(activities)) = activities
                /\ activities'[Len(activities')].reference_name = resp'.name
           ELSE UNCHANGED <<leads, activities>>]_vars

\* An assignment to an Active partner has just failed at the insert of the
\* activity record, after the lead was saved, and the lead has no partner.
AssignIsAllOrNothingWitness ==
    /\ IsAssign(resp)
    /\ resp.exc = "ValidationError"
    /\ resp.msg = "CRM Activity"
    /\ partners[resp.data.partner_name].status = "Active"
    /\ leads[resp.name].partner = 0
    /\ leads[resp.name].lead_owner = ""

-----------------------------------------------------------------------------
(* Side effects of a creation: partners created while the insert of the   *)
(* portal user, the welcome mail or the insert of a task works or raises. *)

EffectFailures == {"User", "sendmail", "ToDo"}

EffectsUpdateData == {[status |-> "Active"], [status |-> "Suspended"]}

NextEffects ==
    \/ \E partner_data \in EmailCreateData : create_partner(Manager, partner_data)
    \/ \E partner_name \in 1..MaxPartners, partner_data \in EffectsUpdateData :
           update_partner(Manager, partner_name, partner_data)
    \/ \E operation \in EffectFailures \cup {""} : SetFailing(operation)

SpecEffects == Init /\ [][NextEffects]_vars

\* the create_partner of a partner manager that ends in r passed the
\* required fields and validate, so that the partner was written and
\* after_insert ran, while a side effect was set to raise
CreatedWhileSideEffectFails(r) ==
    /\ r.op = "create_partner"
    /\ failing \in EffectFailures
    /\ \A i \in 1..Len(RequiredFields) : ~Missing(r.data, RequiredFields[i])
    /\ validate(SubmittedDoc(r)).msg = ""

\* C16: a failure of a side effect after the creation (user provisioning,
\* welcome notification, onboarding tasks) neither rolls the partner back
\* nor reaches the caller: create_partner returns success and the partner
\* is persisted.
SideEffectFailureNotPropagated ==
    [][CreatedWhileSideEffectFails(resp') =>
           /\ resp'.exc = ""
           /\ Len(partners') = Len(partners) + 1
           /\ partners'[Len(partners')].email = resp'.data.email]_vars

-----------------------------------------------------------------------------
(* Calls on partners that exist or not, by a manager, a CRM user and a    *)
(* portal user: reads, and updates with valid and invalid field values,   *)
(* while a Won deal may arrive.                                            *)

CallsUpdateData ==
    {[partner_tier |-> "Platinum", commission_rate |-> 20],
     [partner_tier |-> "Silver", commission_rate |-> 150],
     [status |-> "Active"]}

NextCalls ==
    \/ \E partner_data \in AccessCreateData : create_partner(Manager, partner_data)
    \/ \E caller \in AccessCallers, partner_name \in 1..MaxPartners,
          partner_data \in CallsUpdateData :
           update_partner(caller, partner_name, partner_data)
    \/ \E caller \in AccessCallers, partner_name \in 1..MaxPartners :
           get_partner_details(caller, partner_name)
    \/ InsertDeal(1, "Won", 10000, 1)

SpecCalls == Init /\ [][NextCalls]_vars

\* the call that ends in r names a partner that is not stored
NamesAbsentPartner(r) ==
    /\ r.op \in {"get_partner_details", "update_partner"}
    /\ r.name \notin DOMAIN partners

\* a call on an absent partner ends in the framework's ValidationError with
\* the message "Partner not found" and changes nothing
AbsentPartnerIsValidationError ==
    [][NamesAbsentPartner(resp') =>
           /\ resp'.exc = "ValidationError"
           /\ resp'.msg = "Partner not found"
           /\ UNCHANGED <<partners, deals, leads, users, todos, activities>>]_vars

\* C17: get_partner_details and update_partner with an id that names no
\* partner fail with DoesNotExistError, the NotFound kind, distinct from
\* ValidationError and from the permission failure, and change no state.
AbsentPartnerIsNotFound ==
    [][NamesAbsentPartner(resp') =>
           /\ resp'.exc = "DoesNotExistError"
           /\ UNCHANGED <<partners, deals, leads, users, todos, activities>>]_vars

\* the identity of the caller of r among the callers of SpecCalls
CallerOf(r) == CHOOSE c \in AccessCallers : c.user = r.user

\* the update_partner that ends in r names a stored partner its caller has
\* no write permission on
UpdateWithoutWritePermission(r) ==
    /\ r.op = "update_partner"
    /\ r.name \in DOMAIN partners
    /\ ~has_permission(partners[r.name], r.user, CallerOf(r).roles, "write")

UpdateWithWritePermission(r) ==
    /\ r.op = "update_partner"
    /\ r.name \in DOMAIN partners
    /\ has_permission(partners[r.name], r.user, CallerOf(r).roles, "write")

\* an update without write permission leaves every field of the partner as
\* it was and ends in a ValidationError that says so
UpdateDeniedLeavesPartner ==
    [][UpdateWithoutWritePermission(resp') =>
           /\ resp'.exc = "ValidationError"
           /\ resp'.msg = "Not permitted to update this partner"
           /\ UNCHANGED partners]_vars

\* an update with write permission persists the supplied fields with the
\* metrics and the score recomputed, or, when it fails, nothing
UpdateAppliesOrPersistsNothing ==
    [][UpdateWithWritePermission(resp') =>
           IF resp'.exc = ""
           THEN /\ \A f \in DOMAIN resp'.data :
                       partners'[resp'.name][f] = resp'.data[f]
                /\ \A f \in DOMAIN Aggregates(resp'.name) :
                       partners'[resp'.name][f] = Aggregates(resp'.name)[f]
                /\ validate(partners'[resp'.name]).msg = ""
           ELSE UNCHANGED partners]_vars

\* C18: update_partner by a caller without write permission fails with an
\* error of the PermissionDenied kind and leaves every field of the partner
\* unchanged; with write permission it persists the supplied fields,
\* validated and with the metrics recomputed, or nothing when validation
\* fails.
UpdateRequiresWritePermission ==
    /\ [][UpdateWithoutWritePermission(resp') =>
              resp'.exc = "PermissionError" /\ UNCHANGED partners]_vars
    /\ UpdateAppliesOrPersistsNothing

-----------------------------------------------------------------------------
(* Creation: partner_data with every required field present, with one of  *)
(* them missing or empty, and with values for the derived metrics.         *)

Without(partner_data, field) ==
    [f \in DOMAIN partner_data \ {field} |-> partner_data[f]]

Emptied(partner_data, field) ==
    [partner_data EXCEPT ![field] = IF field \in SequenceFields THEN <<>> ELSE ""]

CreateCreateData ==
    LET complete ==
            {[partner_name |-> Name_ab, partner_type |-> Str_Reseller,
              partner_tier |-> "Gold", email |-> e] : e \in Emails}
    IN complete
       \cup {Without(d, RequiredFields[i]) : d \in complete, i \in 1..Len(RequiredFields)}
       \cup {Emptied(d, RequiredFields[i]) : d \in complete, i \in 1..Len(RequiredFields)}
       \cup {d @@ SuppliedMetrics : d \in complete}

NextCreate ==
    \E partner_data \in CreateCreateData : create_partner(Manager, partner_data)

SpecCreate == Init /\ [][NextCreate]_vars

\* the create_partner that ends in r lacks a required field
LacksRequiredField(r) ==
    /\ r.op = "create_partner"
    /\ \E i \in 1..Len(RequiredFields) : Missing(r.data, RequiredFields[i])

\* the create_partner that ends in r has the four required fields and a
\* document that passes validate
CompleteAndValid(r) ==
    /\ r.op = "create_partner"
    /\ ~LacksRequiredField(r)
    /\ validate(SubmittedDoc(r)).msg = ""

\* a create that lacks a required field fails and persists nothing; a
\* complete and valid one persists exactly one partner
CreateChecksRequiredFields ==
    [][/\ LacksRequiredField(resp') =>
              /\ resp'.exc = "ValidationError"
              /\ UNCHANGED <<partners, users, todos>>
       /\ CompleteAndValid(resp') =>
              /\ resp'.exc = ""
              /\ Len(partners') = Len(partners) + 1
              /\ SubSeq(partners', 1, Len(partners)) = partners]_vars

\* the numeric metrics of a partner created by a complete and valid
\* create are all zero
InitialAggregatesAreZero ==
    [][CompleteAndValid(resp') =>
           LET new == partners'[Len(partners')]
           IN /\ new.total_deals_closed = 0
              /\ new.total_revenue_generated = 0
              /\ new.average_deal_size = QInt(0)
              /\ new.ytd_revenue = 0
              /\ new.lead_conversion_rate = QInt(0)]_vars

\* the partner created by a complete and valid create has no last deal date
InitialLastDealDateIsUnset ==
    [][CompleteAndValid(resp') =>
           partners'[Len(partners')].last_deal_date = NoDate]_vars

\* C19: create_partner with any of partner_name, partner_type, partner_tier,
\* email missing or empty fails with a ValidationError and persists no
\* partner, no user and no task; with all four present and valid it persists
\* exactly one partner, whose initial metrics are all zero.
CreateRequiresFieldsAndStartsAtZero ==
    /\ CreateChecksRequiredFields
    /\ InitialAggregatesAreZero
    /\ InitialLastDealDateIsUnset

-----------------------------------------------------------------------------
(* Onboarding: one partner whose three completion flags and onboarding    *)
(* status are set by updates, one at a time, while days pass.              *)

OnboardingUpdateData ==
    {[training_completed |-> 1], [certification_obtained |-> 1],
     [portal_access_enabled |-> 1], [portal_access_enabled |-> 0],
     [onboarding_status |-> "In Progress"], [onboarding_status |-> "Not Started"],
     [onboarding_status |-> "Completed"], [partner_tier |-> "Gold"],
     [onboarding_completion_date |-> 1]}

NextOnboarding ==
    \/ \E partner_data \in ScoreCreateData : create_partner(Manager, partner_data)
    \/ \E partner_name \in 1..MaxPartners, partner_data \in OnboardingUpdateData :
           update_partner(Manager, partner_name, partner_data)
    \/ NextDay

SpecOnboarding == Init /\ [][NextOnboarding]_vars

\* the call that ends in r is a create or an update that succeeded
Succeeded(r) == IsSave(r) /\ r.exc = ""

\* the document handed to the save has the three flags set and is not
\* Completed yet
CompletesOnboarding(doc) ==
    /\ doc.training_completed # 0
    /\ doc.certification_obtained # 0
    /\ doc.portal_access_enabled # 0
    /\ doc.onboarding_status # "Completed"

\* C20: on a save, onboarding_status becomes Completed and the completion
\* date the save date exactly when the three flags are set and the status is
\* not Completed already; every other save leaves onboarding status and
\* completion date as they were handed to it.
OnboardingCompletesExactlyWhenFlagsSet ==
    [][Succeeded(resp') =>
           LET before == SubmittedDoc(resp')
               after == partners'[resp'.name]
           IN IF CompletesOnboarding(before)
              THEN /\ after.onboarding_status = "Completed"
                   /\ after.onboarding_completion_date = today
              ELSE /\ after.onboarding_status = before.onboarding_status
                   /\ after.onboarding_completion_date =
                          before.onboarding_completion_date]_vars

\* The update that set the last flag, on a later day than the creation,
\* has just completed the onboarding.
OnboardingCompletesExactlyWhenFlagsSetWitness ==
    /\ Saved
    /\ resp.op = "update_partner"
    /\ DOMAIN resp.data = {"portal_access_enabled"}
    /\ resp.data.portal_access_enabled = 1
    /\ today > 1
    /\ partners[resp.name].onboarding_status = "Completed"
    /\ partners[resp.name].onboarding_completion_date = today

-----------------------------------------------------------------------------
(* Completed as a terminal state, under SpecOnboarding.                    *)

OnboardingFields == {"onboarding_status", "onboarding_completion_date"}

\* the step is a successful update of partner n whose payload writes the
\* onboarding status or the completion date itself (update_partner applies
\* every supplied field the document has with setattr)
EditsOnboarding(n, r) ==
    /\ Succeeded(r)
    /\ r.op = "update_partner"
    /\ r.name = n
    /\ DOMAIN r.data \cap OnboardingFields # {}

\* partner n is Completed and stays Completed with the same completion date
KeepsCompleted(n) ==
    /\ n \in DOMAIN partners'
    /\ partners'[n].onboarding_status = "Completed"
    /\ partners'[n].onboarding_completion_date =
           partners[n].onboarding_completion_date

\* C21 as stated: once a partner's onboarding status is Completed, every
\* later save keeps it Completed with the originally stamped completion date.
CompletedIsTerminal ==
    [][\A n \in DOMAIN partners :
           partners[n].onboarding_status = "Completed" => KeepsCompleted(n)]_vars

\* C21 amended: once a partner's onboarding status is Completed, every later
\* step that is not an update writing the onboarding status or the completion
\* date itself keeps it Completed with the completion date it had, also when
\* the completion flags are cleared.
CompletedKeptUnlessEdited ==
    [][\A n \in DOMAIN partners :
           partners[n].onboarding_status = "Completed"
           /\ ~EditsOnboarding(n, resp')
           => KeepsCompleted(n)]_vars

\* An update on a later day has cleared the portal flag of a partner that
\* completed its onboarding before; it is still Completed, with the earlier
\* date.
CompletedKeptUnlessEditedWitness ==
    /\ Saved
    /\ resp.op = "update_partner"
    /\ DOMAIN resp.data = {"portal_access_enabled"}
    /\ resp.data.portal_access_enabled = 0
    /\ partners[resp.name].training_completed # 0
    /\ partners[resp.name].certification_obtained # 0
    /\ partners[resp.name].onboarding_status = "Completed"
    /\ partners[resp.name].onboarding_completion_date # NoDate
    /\ partners[resp.name].onboarding_completion_date < today

-----------------------------------------------------------------------------
(* Status workflow: partners of fixed emails are created, some with a      *)
(* status, and their status is changed or re-saved by updates.             *)

StatusCreateData ==
    {[partner_name |-> Name_ab, partner_type |-> Str_Reseller,
      partner_tier |-> "Gold", email |-> e] : e \in {"p1@prm.test", "p2@prm.test"}}
    \cup {[partner_name |-> Name_ab, partner_type |-> Str_Reseller,
           partner_tier |-> "Gold", email |-> "p1@prm.test", status |-> s] :
              s \in {"Active", "Suspended"}}

StatusUpdateData == {[status |-> s] : s \in Statuses} \cup {[partner_tier |-> "Gold"]}

NextStatus ==
    \/ \E partner_data \in StatusCreateData : create_partner(Manager, partner_data)
    \/ \E partner_name \in 1..MaxPartners, partner_data \in StatusUpdateData :
           update_partner(Manager, partner_name, partner_data)

SpecStatus == Init /\ [][NextStatus]_vars

DisablingStatuses == {"Inactive", "Suspended", "Terminated"}

\* has_value_changed("status") of the save that ends in r: true on an insert,
\* and on an update that stores another status than the partner had
StatusChanged(r) ==
    \/ r.op = "create_partner"
    \/ partners'[r.name].status # partners[r.name].status

\* the users as the save that ends in r finds them when on_update runs:
\* an insert has created the portal user of a new email, enabled
UsersBeforeUpdate(r) ==
    IF r.op = "create_partner" THEN create_partner_user(partners'[r.name], users)
    ELSE users

\* users' is us with the portal access of email set to flag
EnabledSetTo(us, email, flag) ==
    /\ DOMAIN users' = DOMAIN us
    /\ email \in DOMAIN us
    /\ users'[email].enabled = flag
    /\ \A e \in DOMAIN us \ {email} : users'[e] = us[e]

\* a save that changes the status to Active enables the portal user of the
\* partner's email, one that changes it to Inactive, Suspended or Terminated
\* disables it, every other step leaves every portal user as it was
StatusChangeSetsAccess ==
    [][IF Succeeded(resp')
       THEN LET after == partners'[resp'.name]
                us == UsersBeforeUpdate(resp')
            IN IF StatusChanged(resp') /\ after.status = "Active"
               THEN EnabledSetTo(us, after.email, 1)
               ELSE IF StatusChanged(resp') /\ after.status \in DisablingStatuses
               THEN EnabledSetTo(us, after.email, 0)
               ELSE users' = us
       ELSE users' = users]_vars

\* the portal user of an Active partner is enabled, that of an Inactive,
\* Suspended or Terminated partner is disabled
AccessReflectsStatus ==
    \A n \in DOMAIN partners :
        /\ partners[n].status = "Active" =>
               /\ partners[n].email \in DOMAIN users
               /\ users[partners[n].email].enabled = 1
        /\ partners[n].status \in DisablingStatuses =>
               /\ partners[n].email \in DOMAIN users
               /\ users[partners[n].email].enabled = 0

\* C22: a save that changes status to Active enables the portal user of the
\* partner's email; one that changes it to Inactive, Suspended or Terminated
\* disables it; a save that leaves status unchanged or changes it to Pending
\* Approval leaves the flag unchanged; so after any sequence of status
\* changes the flag reflects the most recent change among those four statuses.
PortalAccessFollowsStatus == []AccessReflectsStatus /\ StatusChangeSetsAccess

\* A partner that was suspended has just been moved back to Pending
\* Approval: its portal user stays disabled, as the suspension left it.
PortalAccessFollowsStatusWitness ==
    /\ Saved
    /\ resp.op = "update_partner"
    /\ DOMAIN resp.data = {"status"}
    /\ resp.data.status = "Pending Approval"
    /\ partners[resp.name].status = "Pending Approval"
    /\ users[partners[resp.name].email].enabled = 0
    /\ \E n \in DOMAIN partners :
           n # resp.name /\ partners[n].status = "Active"
           /\ users[partners[n].email].enabled = 1

-----------------------------------------------------------------------------
(* Listing: two partners of different names and types, created with or    *)
(* without a status, are listed by a manager, a CRM user and the portal    *)
(* user of the first partner, with filters, pages and search terms.        *)

Name_cd == <<"c", "d">>

ListCreateData ==
    LET base == {[partner_name |-> Name_ab, partner_type |-> Str_Reseller,
                  partner_tier |-> "Gold", email |-> "p1@prm.test"],
                 [partner_name |-> Name_cd, partner_type |-> Str_Distributor,
                  partner_tier |-> "Gold", email |-> "p2@prm.test"]}
    IN base \cup {Put(d, "status", s) : d \in base, s \in {"Active", "Terminated"}}

ListFilters ==
    {<<>>, [status |-> <<"=", "Terminated">>], [status |-> <<"!=", "Active">>],
     [partner_type |-> <<"=", Str_Reseller>>]}

ListLimits == {1, 2}

ListStarts == {0, 1}

SearchTerms == {<<>>, <<"a">>, <<"z">>}

NextList ==
    \/ \E partner_data \in ListCreateData : create_partner(Manager, partner_data)
    \/ \E caller \in AccessCallers, filters \in ListFilters, limit \in ListLimits,
          start \in ListStarts, search_term \in SearchTerms :
           get_partner_list(caller, filters, limit, start, search_term)

SpecList == Init /\ [][NextList]_vars

\* the last call was a get_partner_list that returned
Listed == resp.op = "get_partner_list" /\ resp.exc = ""

\* the partners of the returned page
Returned == {resp.data.partners[i] : i \in 1..Len(resp.data.partners)}

\* the page asked for is large enough for every stored partner
WholeList ==
    resp.data.request.start = 0 /\ resp.data.request.limit >= Len(partners)

\* C23: get_partner_list returns no Terminated partner unless the filters
\* hold a status entry; a supplied status filter is applied as given, without
\* the default exclusion: every returned partner satisfies the filters as
\* supplied, and every partner that satisfies them and that the caller may
\* see, Terminated or not, is in the whole list.
TerminatedListedOnlyOnRequest ==
    Listed =>
        LET filters == resp.data.request.filters
            visible == ListedPartners(CallerOf(resp), filters)
        IN /\ "status" \notin DOMAIN filters =>
                  \A n \in Returned : partners[n].status # "Terminated"
           /\ "status" \in DOMAIN filters =>
                  /\ Returned \subseteq visible
                  /\ WholeList => Returned = visible

\* A manager listed with the filter status = Terminated and got a Terminated
\* partner, while another partner is not Terminated.
TerminatedListedOnlyOnRequestWitness ==
    /\ Listed
    /\ resp.user = Manager.user
    /\ resp.data.request.filters = [status |-> <<"=", "Terminated">>]
    /\ \E n \in Returned : partners[n].status = "Terminated"
    /\ \E n \in DOMAIN partners : partners[n].status # "Terminated"

\* value holds term as a run of consecutive characters
Contains(value, term) ==
    \E i \in 0..(Len(value) - Len(term)) : SubSeq(value, i + 1, i + Len(term)) = term

\* the last call was a get_partner_list with a search term that returned
Searched == Listed /\ resp.data.request.search_term # <<>>

\* C24: get_partner_list with a search term returns only partners whose
\* partner_name contains the term as a substring, and total_count counts
\* only those.
SearchReturnsOnlyMatchingNames ==
    Searched =>
        LET term == resp.data.request.search_term
            filters == default_status_filter(resp.data.request.filters)
        IN /\ \A n \in Returned : Contains(partners[n].partner_name, term)
           /\ resp.data.total_count =
                  Cardinality({n \in DOMAIN partners :
                                  /\ FilterHolds(partners[n], filters)
                                  /\ Contains(partners[n].partner_name, term)})

\* C30: the pagination metadata of get_partner_list is consistent with what
\* the caller may see: total_count is the number of matching partners the
\* caller's permission filter admits, and has_more is true exactly when
\* such partners exist beyond the returned page.
PaginationMatchesVisible ==
    Listed =>
        LET request == resp.data.request
            visible == ListedPartners(CallerOf(resp),
                                      default_status_filter(request.filters))
        IN /\ resp.data.total_count = Cardinality(visible)
           /\ resp.data.has_more = (request.start + request.limit < Cardinality(visible))

-----------------------------------------------------------------------------
(* Commission: partners created with and without a commission rate, and    *)
(* commissions computed for deal values.                                   *)

CommissionRates == {0, 15, 100}

CommissionDealValues == {0, 1, 333, 10000}

CommissionCreateData ==
    LET base == {[partner_name |-> Name_ab, partner_type |-> Str_Reseller,
                  partner_tier |-> "Gold", email |-> e] :
                     e \in {"p1@prm.test", "p2@prm.test"}}
    IN base \cup {Put(d, "commission_rate", c) : d \in base, c \in CommissionRates}

NextCommission ==
    \/ \E partner_data \in CommissionCreateData : create_partner(Manager, partner_data)
    \/ \E partner \in 1..MaxPartners, deal_value \in CommissionDealValues :
           calculate_partner_commission(partner, deal_value)

SpecCommission == Init /\ [][NextCommission]_vars

\* the step is a calculate_partner_commission that returned
Calculated(r) == r.op = "calculate_partner_commission" /\ r.exc = ""

\* C25: calculate_partner_commission returns dealValue * commissionRate / 100
\* for a partner with a commission rate in [0, 100] and a non-negative deal
\* value, 0 for a partner without a commission rate, and modifies no record.
CommissionIsRateShareOfDeal ==
    [][Calculated(resp') =>
           LET commission == resp'.data.commission
               rate == partners[resp'.name].commission_rate
           IN /\ commission.d > 0
              /\ commission.n * 100 = resp'.data.deal_value * rate * commission.d
              /\ UNCHANGED <<partners, deals, leads, users, todos, activities>>]_vars

\* The commission of a partner of rate 15 on a deal of 333 is 49.95.
CommissionIsRateShareOfDealWitness ==
    /\ Calculated(resp)
    /\ partners[resp.name].commission_rate = 15
    /\ resp.data.deal_value = 333
    /\ resp.data.commission = [n |-> 999, d |-> 20]

-----------------------------------------------------------------------------
(* Concurrent creates: requests of one name, two types and three emails,   *)
(* with and without a partner code, begin and finish in any order.         *)

RaceCreateData ==
    {[partner_name |-> Name_ab, partner_type |-> pt, partner_tier |-> "Gold",
      email |-> e] : pt \in {Str_Reseller, Str_Distributor}, e \in Emails}
    \cup {[partner_name |-> Name_ab, partner_type |-> Str_Reseller,
           partner_tier |-> "Gold", email |-> "p3@prm.test",
           partner_code |-> Code_ABRES001]}

NextRace ==
    \/ \E partner_data \in RaceCreateData : begin_create_partner(Manager, partner_data)
    \/ \E i \in 1..MaxPartners : finish_create_partner(i)

SpecRace == Init /\ [][NextRace]_vars

\* requests i and j are of the same name and type and gave no partner code
SameNameAndType(i, j) ==
    /\ inflight[i].data.partner_name = inflight[j].data.partner_name
    /\ inflight[i].data.partner_type = inflight[j].data.partner_type
    /\ "partner_code" \notin DOMAIN inflight[i].data
    /\ "partner_code" \notin DOMAIN inflight[j].data

\* two requests of the same name and type that have both probed, and whose
\* selected codes are both still free, have selected the same code
ConcurrentProbesSelectSameCode ==
    \A i, j \in DOMAIN inflight :
        /\ SameNameAndType(i, j)
        /\ ~ExistsPartnerCode(inflight[i].doc.partner_code)
        /\ ~ExistsPartnerCode(inflight[j].doc.partner_code)
        => inflight[i].doc.partner_code = inflight[j].doc.partner_code

\* a request that has probed persists its partner with the code it selected,
\* also when that code has been stored meanwhile
SelectedCodeIsPersisted ==
    [][\A i \in DOMAIN inflight :
           Len(inflight') < Len(inflight) /\ inflight' =
               SubSeq(inflight, 1, i - 1) \o SubSeq(inflight, i + 1, Len(inflight))
           => /\ resp'.exc = ""
              /\ partners' = Append(partners, partners'[Len(partners')])
              /\ partners'[Len(partners')].partner_code =
                     inflight[i].doc.partner_code]_vars

\* C26: two concurrent creates of identical name and type and no explicit
\* code that both probe before either persists select the same code, and
\* both persist it: nothing in the create path detects the conflict.
ConcurrentCreatesShareCode ==
    []ConcurrentProbesSelectSameCode /\ SelectedCodeIsPersisted

\* Two requests of the same name and type and no code have both finished,
\* and two partners with the same partner code are stored.
ConcurrentCreatesShareCodeWitness ==
    /\ inflight = <<>>
    /\ Saved
    /\ "partner_code" \notin DOMAIN resp.data
    /\ \E m \in DOMAIN partners :
           /\ m # resp.name
           /\ partners[m].partner_code = partners[resp.name].partner_code
           /\ partners[m].partner_name = partners[resp.name].partner_name
           /\ partners[m].partner_type = partners[resp.name].partner_type
           /\ partners[m].email # partners[resp.name].email

-----------------------------------------------------------------------------
(* The generated partner code, under SpecCode.                             *)

\* the first letter of each whitespace-separated token, in upper case, at
\* most six of them
Initials(partner_name) ==
    LET tokens == Split(partner_name)
    IN Prefix(Upper([i \in 1..Len(tokens) |-> tokens[i][1]]), 6)

\* code is stem followed by the zero-padded counter n, and n is the smallest
\* integer >= 1 whose code no stored partner holds
SmallestFreeCounter(code, stem) ==
    \E n \in 1..(Len(partners) + 1) :
        /\ code = stem \o Format03d(n)
        /\ ~ExistsPartnerCode(stem \o Format03d(n))
        /\ \A k \in 1..(n - 1) : ExistsPartnerCode(stem \o Format03d(k))

\* the save that ends in r succeeded and was handed no partner code
SavedWithoutCode(r) == Succeeded(r) /\ SubmittedDoc(r).partner_code = <<>>

\* a partner saved without a code gets the upper-cased tokens of its name
\* joined and cut to six characters, the type code and the smallest free
\* counter
GeneratedCodeIsTokensTypeCounter ==
    [][SavedWithoutCode(resp') =>
           LET doc == SubmittedDoc(resp')
           IN SmallestFreeCounter(partners'[resp'.name].partner_code,
                  CodeBase(doc.partner_name) \o TypeCode(doc.partner_type))]_vars

\* C27: a partner saved without a code gets UPPER(first letter of each
\* whitespace-separated name token, at most 6 characters), then UPPER(first 3
\* characters of the partner type, or GEN), then the zero-padded 3-digit
\* counter n, the smallest integer >= 1 whose code no existing partner holds.
GeneratedCodeIsInitialsTypeCounter ==
    [][SavedWithoutCode(resp') =>
           LET doc == SubmittedDoc(resp')
           IN SmallestFreeCounter(partners'[resp'.name].partner_code,
                  Initials(doc.partner_name) \o TypeCode(doc.partner_type))]_vars

-----------------------------------------------------------------------------
(* Order of the validation checks: saves that violate none, one or several *)
(* of the rules at once.                                                   *)

\* values that violate a rule: a partner code the first partner may hold,
\* an end before the start, rates above 100
OrderFieldValues ==
    [partner_code |-> Code_ABRES001, agreement_end_date |-> 1,
     commission_rate |-> 101, discount_level |-> 101]

OrderCreateData ==
    {[f \in {"partner_name", "partner_type", "partner_tier", "email",
             "agreement_start_date"} \cup fields |->
         CASE f = "partner_name" -> Name_ab
           [] f = "partner_type" -> Str_Reseller
           [] f = "partner_tier" -> "Gold"
           [] f = "email" -> e
           [] f = "agreement_start_date" -> 2
           [] OTHER -> OrderFieldValues[f]] :
        fields \in SUBSET {"partner_code", "agreement_end_date", "commission_rate",
                           "discount_level"},
        e \in {"p1@prm.test", "p2@prm.test"}}

OrderUpdateData ==
    {[partner_code |-> Code_ABRES001, email |-> "p1@prm.test"],
     [agreement_end_date |-> 2, discount_level |-> 101, email |-> "p1@prm.test"],
     [commission_rate |-> -1, discount_level |-> -1],
     [partner_tier |-> "Gold"]}

NextOrder ==
    \/ \E partner_data \in OrderCreateData : create_partner(Manager, partner_data)
    \/ \E partner_name \in 1..MaxPartners, partner_data \in OrderUpdateData :
           update_partner(Manager, partner_name, partner_data)

SpecOrder == Init /\ [][NextOrder]_vars

\* the messages of the checks, in the order validate() runs them; the code
\* generation between discount level and email throws nothing
ValidationOrder ==
    <<"Partner Code already exists",
      "Agreement End Date must be after Agreement Start Date",
      "Commission Rate must be between 0 and 100",
      "Discount Level must be between 0 and 100",
      "Email is already registered with another partner">>

OutOfRange(rate) == rate # 0 /\ (rate < 0 \/ rate > 100)

\* the ranks in ValidationOrder of the rules that doc violates
ViolatedRules(doc) ==
    {rule \in 1..Len(ValidationOrder) :
        CASE rule = 1 -> /\ doc.partner_code # <<>>
                         /\ \E n \in DOMAIN partners :
                                /\ n # doc.name
                                /\ partners[n].partner_code = doc.partner_code
          [] rule = 2 -> /\ doc.agreement_start_date # NoDate
                         /\ doc.agreement_end_date # NoDate
                         /\ doc.agreement_start_date >= doc.agreement_end_date
          [] rule = 3 -> OutOfRange(doc.commission_rate)
          [] rule = 4 -> OutOfRange(doc.discount_level)
          [] rule = 5 -> /\ doc.email # ""
                         /\ \E n \in DOMAIN partners :
                                n # doc.name /\ partners[n].email = doc.email}

\* the smallest element of a non-empty set of ranks
Earliest(rules) == CHOOSE rule \in rules : \A other \in rules : rule <= other

\* C28: the validation checks run in the order partner-code uniqueness,
\* agreement dates, commission rate, discount level, code generation, email
\* uniqueness and stop at the first failure: a save that violates several
\* rules fails with the message of the earliest violated one and stores
\* nothing, no generated code and no recomputed metric.
ValidationStopsAtFirstFailure ==
    [][Submits(resp') =>
           LET rules == ViolatedRules(SubmittedDoc(resp'))
           IN IF rules = {}
              THEN resp'.msg = ""
              ELSE /\ resp'.msg = ValidationOrder[Earliest(rules)]
                   /\ UNCHANGED <<partners, users, todos>>]_vars

\* A create that violates all five rules at once has failed with the
\* message of the partner code check.
ValidationStopsAtFirstFailureWitness ==
    /\ resp.op = "create_partner"
    /\ ViolatedRules(SubmittedDoc(resp)) = 1..Len(ValidationOrder)
    /\ resp.msg = ValidationOrder[1]

-----------------------------------------------------------------------------
(* The list filter against the single-record check, under SpecAccess.      *)

\* C29: for every identity and every stored partner, the partner satisfies
\* the conditions of get_partner_permission_query_conditions for the
\* identity exactly when has_partner_permission grants the identity "read"
\* on it.
ListFilterAgreesWithReadCheck ==
    \A identity \in Identities, n \in DOMAIN partners :
        n \in VisiblePartners(identity)
            <=> has_partner_permission(partners[n], identity.user,
                                       identity.roles, "read")

\* Two partners are stored, one of them Terminated and the other holding the
\* portal user's email: the portal user sees and may read one of the two,
\* and so does the CRM user.
ListFilterAgreesWithReadCheckWitness ==
    /\ Len(partners) = 2
    /\ Cardinality(VisiblePartners(PortalUser)) = 1
    /\ Cardinality(VisiblePartners(CrmUser)) = 1
    /\ \E n \in DOMAIN partners :
           /\ partners[n].status = "Terminated"
           /\ has_partner_permission(partners[n], PortalUser.user,
                                     PortalUser.roles, "read")
           /\ ~has_partner_permission(partners[n], CrmUser.user, CrmUser.roles,
                                      "read")

====
